---- MODULE Spec2Model ----
(***************************************************************************)
(* CareerOS: the accomplishment store (utils/db_manager.py) on top of a    *)
(* Google Sheets worksheet, and the Home.py handlers that call it.         *)
(*                                                                         *)
(* The worksheet is a sequence of rows, each a sequence of cell strings    *)
(* with trailing blank cells trimmed (a blank cell is no cell to the       *)
(* Sheets API).  Python values that are not strings are written as marked  *)
(* strings: None is PyNone, the int n is "int:n", a float NaN is PyNaN.    *)
(*                                                                         *)
(* Every Streamlit script run calls init_db() and then at most one         *)
(* handler; init_db() swallows its own failures, so a run is a sequence of *)
(* the actions below and the actions are taken one at a time.              *)
(*                                                                         *)
(* The completion client (utils/llm_helper.py), the renderer               *)
(* (utils/pdf_utils.py) and the Generate view of Home.py follow the store. *)
(* A text is a sequence of tokens; a parsed JSON value is written as its   *)
(* tokens without white space.  Spec runs the store handlers, SpecLegacy   *)
(* the same from a worksheet of the earlier schema, SpecLlm the completion *)
(* client's functions over the backend's outcomes, SpecGenerate the        *)
(* Generate view next to the handlers of the other views that can fail,    *)
(* SpecHistory the History view's editor and its "Save Changes",           *)
(* SpecSession one browser session through login, voice capture, submit,   *)
(* generation and logout, and SpecRace the store calls of two sessions     *)
(* with every gspread request a step of its own.                           *)
(***************************************************************************)
EXTENDS Integers, Sequences, FiniteSets, TLC

VARIABLES sheet,    \* the worksheet: Seq of rows, a row is a Seq of cell strings
          conn,     \* st.cache_resource slot of get_gsheet_connection
          nextId,   \* number of uuid4() values drawn so far
          prev,     \* the worksheet as it was before the last operation
          last,     \* the last operation: its arguments, messages and result
          api,      \* llm_helper._API_INITIALIZED
          session,  \* st.session_state of one browser session
          procs,    \* the store calls in flight of the concurrent sessions
          hist      \* what happened earlier in the session, kept for the properties

vars == <<sheet, conn, nextId, prev, last, api, session, procs, hist>>

----------------------------------------------------------------------------
(* Bounds *)

\* at most MaxIds rows are ever appended by add_accomplishment
MaxIds == 2

\* at most MaxGenerations profiles are generated in one session
MaxGenerations == 2

----------------------------------------------------------------------------
(* Values *)

PyNone == "<None>"
PyNaN  == "<nan>"

\* an id source that hands out one value again and again
IdOf_Repeating(n) == "u1"

\* str(uuid.uuid4()): the n-th value drawn; distinct draws give distinct strings
IdOf(n) == "u" \o ToString(n)

expected_headers ==
  <<"id", "date", "category", "description", "impact_metric", "company", "title", "user">>

\* usernames of secrets["credentials"]; "42" is a username gspread numericises
Users == {"alice", "42"}

\* identities passed to get_accomplishments(user=...)
ListUsers == Users \cup {""}

E1 == [date |-> "2024-01-10", category |-> "Tech", description |-> "Led migration",
       impact_metric |-> "cut costs 20%", company |-> "Acme", title |-> "Engineer"]
\* an entry without impact metric
E2 == [date |-> "2023-06-01", category |-> "Sales", description |-> "Hired team",
       impact_metric |-> PyNone, company |-> "Initech", title |-> "Manager"]
\* an edited row: a date that is no date, the text of a row id pasted into the
\* description, blank optional cells
E3 == [date |-> "soon", category |-> "", description |-> IdOf(2),
       impact_metric |-> "", company |-> "", title |-> ""]
\* a form submitted without a description
E0 == [E1 EXCEPT !.description = ""]

\* what the Log form can submit: st.date_input always yields a date
FormInputs == {E0, E1, E2}
\* what the History editor hands to update_accomplishment for an edited row
UpdateInputs == {E2, E3}

NoEntry == [date |-> "-", category |-> "-", description |-> "-",
            impact_metric |-> "-", company |-> "-", title |-> "-"]

\* the ids add_accomplishment can hand out
Uuids == {IdOf(i) : i \in 1..MaxIds}

\* a uuid4 cannot be guessed: a text that is a row id can be typed or pasted
\* only when that id is among the n ids drawn so far
Known(v, n) == (v \in Uuids) => (\E i \in 1..n : v = IdOf(i))

\* values given as id_val: row ids, a header name, a username, a text in no cell
IdVals == Uuids \cup {"id", "alice", "nope"}

----------------------------------------------------------------------------
(* Sequences *)

Max(a, b) == IF a >= b THEN a ELSE b

RangeOf(s) == {s[i] : i \in DOMAIN s}

\* a row as the Sheets API returns it: trailing blank cells dropped
RECURSIVE TrimRow(_)
TrimRow(r) ==
  IF r = <<>> THEN <<>>
  ELSE IF r[Len(r)] = "" THEN TrimRow(SubSeq(r, 1, Len(r) - 1))
  ELSE r

\* a row padded with blank cells to width w
PadRow(r, w) == [c \in 1..Max(w, Len(r)) |-> IF c <= Len(r) THEN r[c] ELSE ""]

----------------------------------------------------------------------------
(* The worksheet operations of gspread that db_manager calls *)

\* Worksheet.row_values(r): the cells of row r, [] for a row with no cell
row_values(s, r) == IF r <= Len(s) THEN TrimRow(s[r]) ELSE <<>>

\* Worksheet.append_row(values): the row is written below the last row
append_row(s, values) == Append(s, TrimRow(values))

\* Worksheet.find(query).row: the cells are scanned row by row over the whole
\* sheet, header row and every column included; the first cell whose text is
\* the query is returned; 0 stands for None
find(s, query) ==
  LET hits == {r \in 1..Len(s) : \E c \in 1..Len(s[r]) : s[r][c] = query}
  IN  IF hits = {} THEN 0 ELSE CHOOSE r \in hits : \A q \in hits : r <= q

\* Worksheet.delete_rows(r): the rows below move up by one
delete_rows(s, r) == SubSeq(s, 1, r - 1) \o SubSeq(s, r + 1, Len(s))

\* Worksheet.update(range_name="B{r}:G{r}", values=[values]): columns 2..7 of row r
update_range(s, r, values) ==
  [s EXCEPT ![r] = TrimRow([c \in 1..Max(Len(@), 7) |->
                              IF c \in 2..7 THEN values[c - 1]
                              ELSE IF c <= Len(@) THEN @[c] ELSE ""])]

\* Worksheet.update_cell(r, c, value)
update_cell(s, r, c, value) ==
  [s EXCEPT ![r] = TrimRow([k \in 1..Max(Len(@), c) |->
                              IF k = c THEN value
                              ELSE IF k <= Len(@) THEN @[k] ELSE ""])]

\* gspread.utils.numericise: a cell whose text reads as a number becomes that
\* number; "42" is the one such text among the values of this model
numericise(v) == IF v = "42" THEN "int:42" ELSE v

SheetWidth(s) == CHOOSE w \in 0..9 :
                   /\ \A r \in 1..Len(s) : Len(s[r]) <= w
                   /\ \/ w = 0
                      \/ \E r \in 1..Len(s) : Len(s[r]) = w

\* Worksheet.get_all_records(): row 1 gives the keys, every later row is a
\* dict of key -> numericised cell; raises when two keys are equal.
\* The result: [raised |-> BOOLEAN, records |-> Seq of functions key -> value]
get_all_records(s) ==
  IF Len(s) = 0 THEN [raised |-> FALSE, records |-> <<>>]
  ELSE LET w    == SheetWidth(s)
           keys == PadRow(s[1], w)
       IN  IF \E i, j \in 1..w : i < j /\ keys[i] = keys[j]
           THEN [raised |-> TRUE, records |-> <<>>]
           ELSE [raised |-> FALSE,
                 records |-> [i \in 1..(Len(s) - 1) |->
                    [k \in RangeOf(keys) |->
                       numericise(PadRow(s[i + 1], w)[CHOOSE c \in 1..w : keys[c] = k])]]]

----------------------------------------------------------------------------
(* pandas *)

NaT == -1

\* pd.to_datetime(v, errors='coerce') as a day number, NaT for what is no date
to_datetime(v) ==
  CASE v = "2024-01-10" -> 20240110
    [] v = "2023-06-01" -> 20230601
    [] OTHER -> NaT

\* Series.dt.strftime('%Y-%m-%d'): NaT gives NaN
strftime(d) ==
  CASE d = 20240110 -> "2024-01-10"
    [] d = 20230601 -> "2023-06-01"
    [] OTHER -> PyNaN

\* the data frame rows: [index |-> position in the records, rec |-> the dict]
DataFrame(records) == [i \in 1..Len(records) |-> [index |-> i - 1, rec |-> records[i]]]

Columns(df) == IF Len(df) = 0 THEN {} ELSE DOMAIN df[1].rec

RECURSIVE SelectRows(_, _)
\* df[df['user'] == user]
SelectRows(df, user) ==
  IF df = <<>> THEN <<>>
  ELSE IF df[1].rec["user"] = user
       THEN <<df[1]>> \o SelectRows(Tail(df), user)
       ELSE SelectRows(Tail(df), user)

\* df.sort_values(by='date', ascending=False): later dates first, NaT last;
\* the default sort is not stable, so rows of equal date come in any order
sort_values(df) ==
  LET n == Len(df)
      MustPrecede(a, b) == /\ a.rec["date"] # NaT
                           /\ \/ b.rec["date"] = NaT
                              \/ a.rec["date"] > b.rec["date"]
  IN  {[i \in 1..n |-> df[p[i]]] :
         p \in {q \in [1..n -> 1..n] :
                  /\ \A i, j \in 1..n : i # j => q[i] # q[j]
                  /\ \A i, j \in 1..n : i < j => ~MustPrecede(df[q[j]], df[q[i]])}}

\* df['date'] = pd.to_datetime(df['date'], errors='coerce')
DateToDatetime(df) ==
  [i \in 1..Len(df) |->
     [df[i] EXCEPT !.rec = [k \in DOMAIN @ |-> IF k = "date" THEN to_datetime(@[k]) ELSE @[k]]]]

\* df['date'] = df['date'].dt.strftime('%Y-%m-%d')
DateToString(df) ==
  [i \in 1..Len(df) |->
     [df[i] EXCEPT !.rec = [k \in DOMAIN @ |-> IF k = "date" THEN strftime(@[k]) ELSE @[k]]]]

\* df[col] = value, for a column the frame does not have
AddColumn(df, col, value) ==
  [i \in 1..Len(df) |->
     [df[i] EXCEPT !.rec = [k \in (DOMAIN @) \cup {col} |-> IF k = col THEN value ELSE @[k]]]]

----------------------------------------------------------------------------
(* utils/db_manager.py *)

\* get_gsheet_connection under st.cache_resource: the body runs only while
\* nothing is cached, and what it returns (the sheet, or None after a
\* failure) is cached and handed to every later call
get_gsheet_connection(c) == IF c = "unset" THEN {"sheet", "none"} ELSE {c}

\* st.error of get_gsheet_connection, shown by the call that ran the body
ConnectMsgs(c, c2) == IF c = "unset" /\ c2 = "none" THEN {"connect_error"} ELSE {}

\* an init_db that writes 'user' over the last header cell
init_db_Overwrite(s, failing) ==
  IF failing THEN [sheet |-> s, msgs |-> {"init_error"}]
  ELSE LET headers == row_values(s, 1)
       IN  IF headers = <<>>
           THEN [sheet |-> append_row(s, expected_headers), msgs |-> {"init_toast"}]
           ELSE IF "user" \notin RangeOf(headers)
                THEN [sheet |-> update_cell(s, 1, Len(headers), "user"), msgs |-> {}]
                ELSE [sheet |-> s, msgs |-> {}]

\* init_db with the sheet in hand; failing: a gspread call raises
init_db(s, failing) ==
  IF failing THEN [sheet |-> s, msgs |-> {"init_error"}]
  ELSE LET headers == row_values(s, 1)
       IN  IF headers = <<>>
           THEN [sheet |-> append_row(s, expected_headers), msgs |-> {"init_toast"}]
           ELSE IF "user" \notin RangeOf(headers)
                THEN [sheet |-> update_cell(s, 1, Len(headers) + 1, "user"), msgs |-> {}]
                ELSE [sheet |-> s, msgs |-> {}]

\* the row as it was written before the user column existed
row_data_NoUser(new_id, e, user) ==
  <<new_id, e.date, e.category, e.description,
    IF e.impact_metric \in {PyNone, ""} THEN "" ELSE e.impact_metric,
    e.company, e.title>>

\* the row_data list of add_accomplishment
row_data(new_id, e, user) ==
  <<new_id, e.date, e.category, e.description,
    IF e.impact_metric \in {PyNone, ""} THEN "" ELSE e.impact_metric,
    e.company, e.title, user>>

\* add_accomplishment with the sheet in hand; raised: the exception is re-raised
add_accomplishment(s, new_id, e, user, failing) ==
  IF failing THEN [sheet |-> s, msgs |-> {"add_error"}, raised |-> TRUE]
  ELSE [sheet |-> append_row(s, row_data(new_id, e, user)), msgs |-> {}, raised |-> FALSE]

\* get_accomplishments with the sheet in hand: the set of frames it can return
get_accomplishments(s, user, failing) ==
  LET data == get_all_records(s)
      df   == DataFrame(data.records)
  IN  IF failing \/ data.raised THEN {[df |-> <<>>, msgs |-> {"fetch_error"}]}
      ELSE IF df = <<>> THEN {[df |-> <<>>, msgs |-> {}]}
      ELSE LET df1 == IF "user" \notin Columns(df) THEN AddColumn(df, "user", "") ELSE df
               df2 == IF user # "" /\ user # PyNone THEN SelectRows(df1, user) ELSE df1
           IN  IF "date" \in Columns(df1)
               THEN {[df |-> DateToString(sorted), msgs |-> {}] :
                       sorted \in sort_values(DateToDatetime(df2))}
               ELSE {[df |-> df2, msgs |-> {}]}

\* delete_accomplishment with the sheet in hand
delete_accomplishment(s, id_val, failing) ==
  IF failing THEN [sheet |-> s, msgs |-> {"delete_error"}]
  ELSE LET row == find(s, id_val)
       IN  IF row # 0
           THEN [sheet |-> delete_rows(s, row), msgs |-> {}]
           ELSE [sheet |-> s, msgs |-> {"delete_warning"}]

\* update_accomplishment with the sheet in hand
update_accomplishment(s, id_val, e, failing) ==
  IF failing THEN [sheet |-> s, msgs |-> {"update_error"}]
  ELSE LET row_num == find(s, id_val)
       IN  IF row_num # 0
           THEN [sheet |-> update_range(s, row_num,
                              <<e.date, e.category, e.description,
                                IF e.impact_metric \in {PyNone, ""} THEN "" ELSE e.impact_metric,
                                e.company, e.title>>),
                 msgs |-> {}]
           ELSE [sheet |-> s, msgs |-> {"update_warning"}]

----------------------------------------------------------------------------
(* Texts and JSON *)

\* A text is a sequence of tokens: the JSON punctuation "{", "}" and ",", a
\* key with its colon ("a", "b"), the number "1", one blank ("sp"), one
\* newline ("nl"), a word of prose ("x"), a code fence of three backquotes
\* ("fence") and the tag "json".  No text of this model repeats a key within
\* one object.
Whitespace == {"sp", "nl"}

\* one token for all the members of a generated profile ("Fit Score",
\* "Cover Letter", "Resume", ...) written out in a response
ProfileMembers == {"profile1", "profile2"}

\* one token for all the members of an entry heard in a recording ("date",
\* "category", "company", "title", "description", "impact_metric")
FormMembers == {"entry1", "entry2"}

Keys == {"a", "b"}

NotSpace(tok) == tok \notin Whitespace

\* what a Python call gives: a value, or an exception
Return(v) == [exc |-> "", val |-> v]

Raise(e) == [exc |-> e, val |-> <<>>]

\* Python's None where a text or a parsed value is expected
None == <<PyNone>>

RECURSIVE ParseValue(_, _)
RECURSIVE ParseMembers(_, _)
\* the JSON value that starts at token i of s: the position after it, 0 when
\* there is none
ParseValue(s, i) ==
  IF i > Len(s) THEN 0
  ELSE IF s[i] = "1" THEN i + 1
  ELSE IF s[i] = "{"
       THEN IF i + 1 <= Len(s) /\ s[i + 1] = "}" THEN i + 2 ELSE ParseMembers(s, i + 1)
       ELSE 0

\* the members of an object from token i up to its closing brace: the
\* position after the brace, 0 when the members are malformed
ParseMembers(s, i) ==
  IF i > Len(s) \/ s[i] \notin (Keys \cup ProfileMembers \cup FormMembers) THEN 0
  ELSE LET j == IF s[i] \in ProfileMembers \cup FormMembers THEN i + 1
                ELSE ParseValue(s, i + 1)
       IN  IF j = 0 \/ j > Len(s) THEN 0
           ELSE IF s[j] = "}" THEN j + 1
           ELSE IF s[j] = "," THEN ParseMembers(s, j + 1)
           ELSE 0

\* json.loads(text): white space between tokens is skipped, the whole text
\* must be one JSON value; the value is written as its tokens
json_loads(text) ==
  LET s == SelectSeq(text, NotSpace)
  IN  IF ParseValue(s, 1) = Len(s) + 1 THEN Return(s) ELSE Raise("JSONDecodeError")

RECURSIVE LStrip(_)
\* the text without its leading white space: what a leading \s* consumes
LStrip(s) == IF s # <<>> /\ s[1] \in Whitespace THEN LStrip(Tail(s)) ELSE s

RECURSIVE RStrip(_)
\* the text without its trailing white space
RStrip(s) ==
  IF s # <<>> /\ s[Len(s)] \in Whitespace THEN RStrip(SubSeq(s, 1, Len(s) - 1)) ELSE s

StartsWith(s, p) == Len(s) >= Len(p) /\ SubSeq(s, 1, Len(p)) = p

\* the first re.sub of text_content: a fence and json at the start of the
\* text, with the white space after them
sub_fence_json(text) ==
  IF StartsWith(text, <<"fence", "json">>) THEN LStrip(SubSeq(text, 3, Len(text))) ELSE text

\* the second re.sub: a fence at the start of the text, with the white space
\* after it
sub_fence_open(text) ==
  IF StartsWith(text, <<"fence">>) THEN LStrip(Tail(text)) ELSE text

\* the third re.sub: white space and a fence before $, and $ stands at the
\* end of the text and before
\* a newline that ends the text; that newline is not part of the match
sub_fence_close(text) ==
  LET n == Len(text)
  IN  IF n >= 1 /\ text[n] = "fence" THEN RStrip(SubSeq(text, 1, n - 1))
      ELSE IF n >= 2 /\ text[n] = "nl" /\ text[n - 1] = "fence"
           THEN RStrip(SubSeq(text, 1, n - 2)) \o <<"nl">>
           ELSE text

\* re.search(r'\{.*\}', text, re.DOTALL).group(): from the first "{" to the
\* last "}" of the text; <<>> when there is no match
search_braces(text) ==
  LET opens  == {i \in 1..Len(text) : text[i] = "{"}
      closes == {i \in 1..Len(text) : text[i] = "}"}
      first  == CHOOSE i \in opens : \A k \in opens : i <= k
      end    == CHOOSE i \in closes : \A k \in closes : i >= k
  IN  IF opens = {} \/ closes = {} THEN <<>>
      ELSE IF first < end THEN SubSeq(text, first, end) ELSE <<>>

----------------------------------------------------------------------------
(* The completion backend *)

\* finish reasons of a candidate: 1 is STOP, 2 is MAX_TOKENS, 3 is SAFETY
FinishReasons == {1, 2, 3}

\* what model.generate_content(...) gives: it raises, or it returns a
\* response with its candidates, the first candidate's finish reason and
\* whether that candidate has content parts, whose text is text
Response(raises, candidates, finish_reason, parts, text) ==
  [raises |-> raises, candidates |-> candidates, finish_reason |-> finish_reason,
   parts |-> parts, text |-> text]

\* the outcomes of a request whose text, when there is one, is among texts
Responses(texts) ==
  {Response(TRUE, 0, 1, FALSE, <<>>), Response(FALSE, 0, 1, FALSE, <<>>)}
  \cup {Response(FALSE, 1, fr, FALSE, <<>>) : fr \in FinishReasons}
  \cup {Response(FALSE, 1, fr, TRUE, text) : fr \in {1, 2}, text \in texts}

\* response.text: the quick accessor raises ValueError when the response has
\* no candidate or its candidate has no part
response_text(resp) ==
  IF resp.candidates = 0 \/ ~resp.parts THEN Raise("ValueError") ELSE Return(resp.text)

\* st.secrets["GEMINI_API_KEY"] and genai.configure: the key is there, the
\* key is missing (KeyError), or configuring raises
Secrets == {"key", "KeyError", "Exception"}

\* genai.list_models(): it raises, or it lists models by name (the prefix
\* "models/" and the rest) and supported generation methods
Model(rest, methods) == [name |-> <<"models/", rest>>, supported_generation_methods |-> methods]

Listing(raises, models) == [raises |-> raises, models |-> models]

Listings ==
  {Listing(TRUE, <<>>), Listing(FALSE, <<>>),
   Listing(FALSE, <<Model("embedding-001", {"embedContent"})>>),
   Listing(FALSE, <<Model("gemini-pro", {"generateContent"}),
                    Model("embedding-001", {"embedContent"}),
                    Model("gemini-flash-latest", {"generateContent", "countTokens"})>>)}

----------------------------------------------------------------------------
(* utils/llm_helper.py *)

FALLBACK_MODELS == <<"gemini-1.5-flash", "gemini-flash-latest", "gemini-1.5-pro">>

\* the model names of this model in the order sorted() gives them
SortedNames == <<"gemini-1.5-flash", "gemini-1.5-pro", "gemini-flash-latest", "gemini-pro">>

\* init_gemini(): [ok |-> what it returns, api |-> _API_INITIALIZED after it,
\* msgs |-> what it shows]
init_gemini(initialized, secret) ==
  IF initialized THEN [ok |-> TRUE, api |-> TRUE, msgs |-> {}]
  ELSE CASE secret = "key" -> [ok |-> TRUE, api |-> TRUE, msgs |-> {}]
         [] secret = "KeyError" -> [ok |-> FALSE, api |-> FALSE, msgs |-> {"no_api_key"}]
         [] OTHER -> [ok |-> FALSE, api |-> FALSE, msgs |-> {"configure_error"}]

\* what a function of the client hands to its caller: the value returned,
\* the messages shown, _API_INITIALIZED, and the exception that leaves the
\* function ("" when none does)
Outcome(ret, msgs, initialized, exc) ==
  [ret |-> ret, msgs |-> msgs, api |-> initialized, exc |-> exc]

\* m.name.replace('models/', '')
replace_prefix(name) ==
  LET rest == SelectSeq(name, LAMBDA piece : piece # "models/")
  IN  IF rest = <<>> THEN "" ELSE rest[1]

\* get_available_models()
get_available_models(initialized, secret, listing) ==
  LET g == init_gemini(initialized, secret)
      models == {replace_prefix(listing.models[i].name) :
                   i \in {k \in DOMAIN listing.models :
                            "generateContent" \in listing.models[k].supported_generation_methods}}
      sorted == SelectSeq(SortedNames, LAMBDA name : name \in models)
  IN  IF ~g.ok THEN Outcome(FALLBACK_MODELS, g.msgs, g.api, "")
      ELSE IF listing.raises THEN Outcome(FALLBACK_MODELS, {"models_error"}, g.api, "")
      ELSE Outcome(IF models # {} THEN sorted ELSE FALLBACK_MODELS, {}, g.api, "")

\* the error strings generate_content returns
ErrorNotConfigured == <<"Error: Gemini API not configured. Please check your API key.">>

ErrorNoCandidates == <<"Error: No candidates returned from Gemini.">>

ErrorStopped == <<"Error: Model stopped unexpectedly.">>

ErrorNoParts == <<"Error: Model returned no content parts.">>

ErrorGenerating == <<"Error generating content">>

ErrorStrings ==
  {ErrorNotConfigured, ErrorNoCandidates, ErrorStopped, ErrorNoParts, ErrorGenerating}

\* generate_content(prompt, ...)
generate_content(initialized, secret, resp) ==
  LET g == init_gemini(initialized, secret)
      body == IF resp.raises THEN Raise("Exception")
              ELSE IF resp.candidates = 0 THEN Return(ErrorNoCandidates)
              ELSE IF resp.finish_reason # 1 THEN Return(ErrorStopped)
              ELSE IF ~resp.parts THEN Return(ErrorNoParts)
              ELSE response_text(resp)
  IN  IF ~g.ok THEN Outcome(ErrorNotConfigured, g.msgs, g.api, "")
      ELSE IF body.exc # "" THEN Outcome(ErrorGenerating, {}, g.api, "")
      ELSE Outcome(body.val, {}, g.api, "")

\* process_audio_to_form(audio_bytes, mime_type)
process_audio_to_form(initialized, secret, resp) ==
  LET g == init_gemini(initialized, secret)
      text == response_text(resp)
      json_match == search_braces(text.val)
      body == IF resp.raises THEN Raise("Exception")
              ELSE IF text.exc # "" THEN text
              ELSE IF json_match # <<>> THEN json_loads(json_match)
              ELSE Return(None)
  IN  IF ~g.ok THEN Outcome(None, g.msgs, g.api, "")
      ELSE IF body.exc # "" THEN Outcome(None, {"audio_error"}, g.api, "")
      ELSE Outcome(body.val, {}, g.api, "")

\* generate_structured_content(prompt, context_data, model_name)
generate_structured_content(initialized, secret, resp) ==
  LET g == init_gemini(initialized, secret)
      text == response_text(resp)
      text_content == sub_fence_close(sub_fence_open(sub_fence_json(text.val)))
      parsed == json_loads(text_content)
  IN  IF ~g.ok THEN Outcome(None, g.msgs, g.api, "")
      ELSE IF resp.raises THEN Outcome(None, {"structured_error"}, g.api, "")
      ELSE IF resp.candidates = 0 THEN Outcome(None, {"no_candidates"}, g.api, "")
      ELSE IF resp.finish_reason # 1 THEN Outcome(None, {"stopped"}, g.api, "")
      ELSE IF text.exc # "" THEN Outcome(None, {"structured_error"}, g.api, "")
      ELSE IF parsed.exc = "JSONDecodeError" THEN Outcome(None, {"decode_error", "raw_output"}, g.api, "")
      ELSE Outcome(parsed.val, {}, g.api, "")

----------------------------------------------------------------------------------------------------------------------------------------
(* The state machine *)

\* the record kept of the last operation: what was called with which
\* arguments, the messages shown (st.error, st.warning, st.success, st.toast),
\* whether an exception reached the caller, and the frame returned.
\* A call whose gspread request raises carries its arguments nowhere: they are
\* recorded as "-" and NoEntry.
Call(op, id, user, e, msgs, raised, df) ==
  [op |-> op, id |-> id, user |-> user, entry |-> e, msgs |-> msgs, raised |-> raised, df |-> df]

\* a PDF slot of st.session_state: the key absent, None, or the bytes of a
\* PDF, which carry the profile_version of the profile they were rendered from
PdfAbsent == [state |-> "absent", version |-> 0]
PdfNone == [state |-> "None", version |-> 0]
PdfBytes(version) == [state |-> "bytes", version |-> version]

\* no store call is in flight
NoProcs == <<>>

\* nothing has been stored in the session yet: the user logged in when the
\* generated profile was stored, the user logged in when the Log form was
\* filled from a voice capture, and whether a finalize of the profile now
\* loaded left a job or an accomplishment out
NoHist == [profile_user |-> "-", form_user |-> "-", left_out |-> FALSE, overlap |-> {}]

\* the username of a session whose user is left open: any user of Users
\* may be the one logged in
AnyUser == "*"

\* st.session_state.get("username", "default") in a view
CurrentUsers(s) == IF s.username = AnyUser THEN Users ELSE {s.username}

\* acc_date, acc_category, acc_company, acc_title, acc_description and
\* acc_impact as the first render of the Log view sets them
IdleForm ==
  [acc_date |-> "today", acc_category |-> "", acc_company |-> "", acc_title |-> "",
   acc_description |-> "", acc_impact |-> ""]

\* st.session_state of a browser session after login and its first render:
\* no generated_profile, no profile_version (read as 0), no PDF, no review
\* widget, the Log form fields idle
NewSession ==
  [authentication_status |-> TRUE, username |-> AnyUser, acc |-> IdleForm,
   generated_profile |-> <<>>, profile_version |-> 0,
   generated_pdf_cl |-> PdfAbsent, generated_pdf_resume |-> PdfAbsent,
   job_include |-> <<>>, acc_include |-> <<>>, acc_text |-> <<>>]

\* the session after "Clear session state after successful save"
Cleared(s) ==
  [s EXCEPT !.acc = [@ EXCEPT !.acc_category = "", !.acc_company = "", !.acc_title = "",
                              !.acc_description = "", !.acc_impact = ""]]

\* a blank worksheet, nothing cached, no uuid drawn, the completion client
\* not configured, a new session
Init ==
  /\ sheet = <<>>
  /\ conn = "unset"
  /\ nextId = 0
  /\ prev = sheet
  /\ last = Call("start", "-", "-", NoEntry, {}, FALSE, <<>>)
  /\ api = FALSE
  /\ session = NewSession
  /\ procs = NoProcs
  /\ hist = NoHist

\* Home.py line 26: db_manager.init_db() at the top of every script run
InitDb ==
  \E c \in get_gsheet_connection(conn), failing \in BOOLEAN :
    LET r == IF c = "none" THEN [sheet |-> sheet, msgs |-> {}] ELSE init_db(sheet, failing)
    IN  /\ conn' = c
        /\ sheet' = r.sheet
        /\ prev' = sheet
        /\ last' = Call("init", "-", "-", NoEntry, ConnectMsgs(conn, c) \cup r.msgs, FALSE, <<>>)
        /\ UNCHANGED <<nextId, api, session, procs, hist>>

\* a form that appends the row before it looks at the description
LogSubmitInvalid_Appends ==
  \E user \in Users, e \in FormInputs :
    /\ e.description = ""
    /\ Len(sheet) < MaxIds + 1
    /\ sheet' = Append(sheet, row_data(IdOf(1), e, user))
    /\ prev' = sheet
    /\ last' = Call("add", "-", user, e, {"need_description"}, FALSE, <<>>)
    /\ UNCHANGED <<conn, nextId, api, session, procs, hist>>

\* Home.py accomplishment_form, "Save Accomplishment" pressed without a description
LogSubmitInvalid ==
  \E user \in CurrentUsers(session), e \in FormInputs :
    /\ session.authentication_status
    /\ e.description = ""
    /\ prev' = sheet
    /\ last' = Call("add", "-", user, e, {"need_description"}, FALSE, <<>>)
    /\ UNCHANGED <<sheet, conn, nextId, api, session, procs, hist>>

\* "Save Accomplishment" with a description while no sheet can be had:
\* add_accomplishment returns at "if not sheet", the form reports success
LogSubmitNoSheet ==
  \E user \in CurrentUsers(session), e \in FormInputs :
    /\ session.authentication_status
    /\ e.description # ""
    /\ "none" \in get_gsheet_connection(conn)
    /\ conn' = "none"
    /\ prev' = sheet
    /\ last' = Call("add", "-", user, e, ConnectMsgs(conn, "none") \cup {"saved"}, FALSE, <<>>)
    /\ session' = Cleared(session)
    /\ UNCHANGED <<sheet, nextId, api, procs, hist>>

\* "Save Accomplishment" with a description and the sheet in hand:
\* add_accomplishment, then the success message and the cleared form, or the
\* error message when add_accomplishment raised
LogSubmit ==
  \E user \in CurrentUsers(session), e \in FormInputs, failing \in BOOLEAN :
    /\ session.authentication_status
    /\ e.description # ""
    /\ "sheet" \in get_gsheet_connection(conn)
    /\ nextId < MaxIds
    /\ LET new_id == IdOf(nextId + 1)
           r == add_accomplishment(sheet, new_id, e, user, failing)
       IN  /\ conn' = "sheet"
           /\ nextId' = nextId + 1
           /\ sheet' = r.sheet
           /\ prev' = sheet
           /\ last' = IF r.raised
                      THEN Call("add", "-", "-", NoEntry, r.msgs \cup {"save_error"}, TRUE, <<>>)
                      ELSE Call("add", new_id, user, e, r.msgs \cup {"saved"}, FALSE, <<>>)
           /\ session' = IF r.raised THEN session ELSE Cleared(session)
    /\ UNCHANGED <<api, procs, hist>>

\* Home.py History view load (and Generate): get_accomplishments(user=current_user)
ListAccomplishments ==
  \E user \in ListUsers, c \in get_gsheet_connection(conn) :
    \E r \in (IF c = "none" THEN {[df |-> <<>>, msgs |-> {}]}
              ELSE get_accomplishments(sheet, user, FALSE)) :
      /\ conn' = c
      /\ prev' = sheet
      /\ last' = Call("list", "-", user, NoEntry, ConnectMsgs(conn, c) \cup r.msgs, FALSE, r.df)
      /\ UNCHANGED <<sheet, nextId, api, session, procs, hist>>

\* Home.py "Permanently Delete": delete_accomplishment(id_to_delete)
DeleteEntry ==
  \E id_val \in IdVals, c \in get_gsheet_connection(conn) :
    /\ Known(id_val, nextId)
    /\ LET r == IF c = "none" THEN [sheet |-> sheet, msgs |-> {}]
                ELSE delete_accomplishment(sheet, id_val, FALSE)
       IN  /\ conn' = c
           /\ sheet' = r.sheet
           /\ prev' = sheet
           /\ last' = Call("delete", id_val, "-", NoEntry, ConnectMsgs(conn, c) \cup r.msgs, FALSE, <<>>)
    /\ UNCHANGED <<nextId, api, session, procs, hist>>

\* Home.py "Save Changes", one changed row: update_accomplishment(id_val, fields),
\* then changes_count is 1 and "Successfully updated 1 entries!" is shown
UpdateEntry ==
  \E id_val \in IdVals, e \in UpdateInputs, c \in get_gsheet_connection(conn) :
    /\ Known(e.description, nextId)
    /\ Known(id_val, nextId)
    /\ LET r == IF c = "none" THEN [sheet |-> sheet, msgs |-> {}]
                ELSE update_accomplishment(sheet, id_val, e, FALSE)
       IN  /\ conn' = c
           /\ sheet' = r.sheet
           /\ prev' = sheet
           /\ last' = Call("update", id_val, "-", e,
                            ConnectMsgs(conn, c) \cup r.msgs \cup {"updated"}, FALSE, <<>>)
    /\ UNCHANGED <<nextId, api, session, procs, hist>>

\* get_accomplishments, delete_accomplishment or update_accomplishment with
\* the sheet in hand and a gspread request that raises: the except branch,
\* and for the update the success message "Save Changes" shows after it
StoreCallFails ==
  \E op \in {"list", "delete", "update"} :
    /\ "sheet" \in get_gsheet_connection(conn)
    /\ conn' = "sheet"
    /\ LET msgs == CASE op = "list"   -> UNION {r.msgs : r \in get_accomplishments(sheet, "-", TRUE)}
                     [] op = "delete" -> delete_accomplishment(sheet, "-", TRUE).msgs
                     [] op = "update" -> update_accomplishment(sheet, "-", NoEntry, TRUE).msgs
                                         \cup {"updated"}
       IN  /\ prev' = sheet
           /\ last' = Call(op, "-", "-", NoEntry, msgs, FALSE, <<>>)
    /\ UNCHANGED <<sheet, nextId, api, session, procs, hist>>

Next ==
  \/ InitDb
  \/ LogSubmitInvalid
  \/ LogSubmitNoSheet
  \/ LogSubmit
  \/ ListAccomplishments
  \/ DeleteEntry
  \/ UpdateEntry
  \/ StoreCallFails

Spec == Init /\ [][Next]_vars

\* the header row of a worksheet set up before the user column existed
legacy_headers == SubSeq(expected_headers, 1, 7)

\* a row written by migrate_sqlite_to_sheets.py: seven cells, no user
rows_to_add(new_id, e) ==
  <<new_id, e.date, e.category, e.description, e.impact_metric, e.company, e.title>>

\* a worksheet of the earlier schema: the seven-column header with one
\* migrated row below it, whose id is the first uuid drawn
InitLegacy ==
  /\ sheet = <<legacy_headers, rows_to_add(IdOf(1), E1)>>
  /\ nextId = 1
  /\ conn = "unset"
  /\ prev = sheet
  /\ last = Call("start", "-", "-", NoEntry, {}, FALSE, <<>>)
  /\ api = FALSE
  /\ session = NewSession
  /\ procs = NoProcs
  /\ hist = NoHist

SpecLegacy == InitLegacy /\ [][Next]_vars

----------------------------------------------------------------------------
(* The completion client called over the outcomes of the backend *)

\* JSON texts: two mappings, a number, an object whose key has no value
MappingTexts ==
  {<<"{", "a", "1", "}">>,
   <<"{", "a", "{", "b", "1", "}", ",", "sp", "b", "1", "}">>}

JsonTexts == MappingTexts \cup {<<"1">>, <<"{", "a", "}">>}

\* white space before, between and after the parts of a response
Blanks == {<<>>, <<"nl">>}

TrailingBlanks == {<<>>, <<"nl">>, <<"sp">>}

OpeningFences == {<<"fence">>, <<"fence", "json">>}

\* t between an opening and a closing fence
Fenced(pre, open, inner, t, post) == pre \o open \o inner \o t \o inner \o <<"fence">> \o post

\* the response texts of a structured request: a JSON text alone or fenced
StructuredTexts ==
  {pre \o t \o post : pre \in Blanks, t \in JsonTexts, post \in TrailingBlanks}
  \cup {Fenced(pre, open, inner, t, post) :
          pre \in Blanks, open \in OpeningFences, inner \in Blanks,
          t \in JsonTexts, post \in TrailingBlanks}

\* what stands before and after the object in the response to an audio request
Before == {<<>>, <<"x", "sp">>}

After == {<<>>, <<"sp", "x">>, <<"sp", "{", "x", "}">>, <<"nl", "{", "}">>}

AudioTexts ==
  {pre \o t \o post : pre \in Before, t \in JsonTexts, post \in After} \cup {<<"x">>}

\* the record of a call of the completion client: configured is what
\* init_gemini returned, resp the backend's outcome
LlmCall(op, configured, resp, r) ==
  [op |-> op, configured |-> configured, resp |-> resp,
   ret |-> r.ret, msgs |-> r.msgs, exc |-> r.exc]

GetAvailableModels ==
  \E secret \in Secrets, listing \in Listings :
    LET r == get_available_models(api, secret, listing)
    IN  /\ api' = r.api
        /\ last' = LlmCall("get_available_models", init_gemini(api, secret).ok, listing, r)
        /\ UNCHANGED <<sheet, conn, nextId, prev, session, procs, hist>>

GenerateContent ==
  \E secret \in Secrets, resp \in Responses({<<"x">>}) :
    LET r == generate_content(api, secret, resp)
    IN  /\ api' = r.api
        /\ last' = LlmCall("generate_content", init_gemini(api, secret).ok, resp, r)
        /\ UNCHANGED <<sheet, conn, nextId, prev, session, procs, hist>>

ProcessAudioToForm ==
  \E secret \in Secrets, resp \in Responses(AudioTexts) :
    LET r == process_audio_to_form(api, secret, resp)
    IN  /\ api' = r.api
        /\ last' = LlmCall("process_audio_to_form", init_gemini(api, secret).ok, resp, r)
        /\ UNCHANGED <<sheet, conn, nextId, prev, session, procs, hist>>

GenerateStructuredContent ==
  \E secret \in Secrets, resp \in Responses(StructuredTexts) :
    LET r == generate_structured_content(api, secret, resp)
    IN  /\ api' = r.api
        /\ last' = LlmCall("generate_structured_content", init_gemini(api, secret).ok, resp, r)
        /\ UNCHANGED <<sheet, conn, nextId, prev, session, procs, hist>>

NextLlm ==
  \/ GetAvailableModels
  \/ GenerateContent
  \/ ProcessAudioToForm
  \/ GenerateStructuredContent

SpecLlm == Init /\ [][NextLlm]_vars

----------------------------------------------------------------------------
(* utils/pdf_utils.py *)

\* pisa.CreatePDF(src, dest): the document is written, or pisa_status.err is set
RenderOutcomes == {"ok", "err"}

\* _generate_pdf_from_html: the bytes of the PDF, None when pisa reports an
\* error; version is the profile_version of the profile the html was built from
generate_pdf_from_html(outcome, version) ==
  IF outcome = "err" THEN PdfNone ELSE PdfBytes(version)

\* create_cover_letter_pdf(data, contact_info)
create_cover_letter_pdf(data, outcome, version) == generate_pdf_from_html(outcome, version)

\* create_resume_pdf(data, contact_info): one job-entry per item of
\* data['Resume']['Experience'], in the order of the dict, with one <li> per
\* accomplishment; jobs is what the PDF shows, nothing when there is no PDF
create_resume_pdf(data, outcome, version) ==
  LET experience == data.Experience
      experience_html == [k \in 1..Len(experience) |->
                            [title_company |-> experience[k].key,
                             job_summary |-> experience[k].Summary,
                             acc_bullets |-> experience[k].Accomplishments]]
      pdf == generate_pdf_from_html(outcome, version)
  IN  [pdf |-> pdf, jobs |-> IF pdf = PdfNone THEN <<>> ELSE experience_html]

----------------------------------------------------------------------------
(* Home.py: the Generate view *)

\* two generated profiles as json.loads returns them
Profile1 == <<"{", "profile1", "}">>

Profile2 == <<"{", "profile2", "}">>

\* a job of Resume.Experience: its key "Job Title, Company" and its details
Job(key, summary, accomplishments) ==
  [key |-> key, Summary |-> summary, Accomplishments |-> accomplishments]

\* content.get('Resume', {}).get('Experience', {}) as the list of its items:
\* Profile1 has two jobs, Profile2 one job whose second accomplishment is an
\* empty string, any other dict has no Experience
Experience(content) ==
  CASE content = Profile1 -> <<Job("Engineer, Acme", "Ran the platform", <<"Led migration", "Cut costs 20%">>),
                               Job("Manager, Initech", "Led a team", <<"Hired team">>)>>
    [] content = Profile2 -> <<Job("Analyst, Hooli", "Built reports", <<"Shipped dashboard", "">>)>>
    [] OTHER -> <<>>

\* isinstance(content, dict)
IsDict(content) == content # <<>> /\ content[1] = "{"

\* bool(response_dict): None and the empty dict are false
Truthy(value) == value \notin {None, <<"{", "}">>}

\* the response texts of the generation request: Profile1 in a fenced block,
\* Profile2 bare, an empty object, a number, prose
ProfileTexts ==
  {<<"fence", "json", "nl">> \o Profile1 \o <<"nl", "fence">>, Profile2,
   <<"{", "}">>, <<"1">>, <<"x">>}

\* what the user can type over an accomplishment
EditTexts == {"Rewritten"}

\* str.strip() of a text that is blank or not
strip(text) == IF text \in {"", " "} THEN "" ELSE text

\* the review widgets as they are first drawn for a profile: every checkbox
\* ticked, every text area holding the generated text
ReviewWidgets(content) ==
  LET experience == Experience(content)
  IN  [job_include |-> [i \in 1..Len(experience) |-> TRUE],
       acc_include |-> [i \in 1..Len(experience) |->
                          [j \in 1..Len(experience[i].Accomplishments) |-> TRUE]],
       acc_text    |-> [i \in 1..Len(experience) |-> experience[i].Accomplishments]]

\* a generation that leaves the PDFs of the session as they are
Generated_KeepPdfs(s, response_dict) ==
  [s EXCEPT !.generated_profile = response_dict,
            !.profile_version = s.profile_version + 1,
            !.job_include = ReviewWidgets(response_dict).job_include,
            !.acc_include = ReviewWidgets(response_dict).acc_include,
            !.acc_text = ReviewWidgets(response_dict).acc_text]

\* the review widgets drawn for a profile under the keys of a version
\* (job_{i}_include_{version}, job_{i}_acc_{j}_include_{version},
\* job_{i}_acc_{j}_text_{version}): a widget whose key is in st.session_state
\* shows the state kept there, any other its value= argument.  The states
\* kept in s are those of the keys of s.profile_version.
DrawWidgets(s, content, version) ==
  LET experience == Experience(content)
      kept_job(i) == version = s.profile_version /\ i \in DOMAIN s.job_include
      kept_acc(i, j) == /\ version = s.profile_version
                        /\ i \in DOMAIN s.acc_include
                        /\ j \in DOMAIN s.acc_include[i]
  IN  [job_include |-> [i \in 1..Len(experience) |->
                          IF kept_job(i) THEN s.job_include[i] ELSE TRUE],
       acc_include |-> [i \in 1..Len(experience) |->
                          [j \in 1..Len(experience[i].Accomplishments) |->
                             IF kept_acc(i, j) THEN s.acc_include[i][j] ELSE TRUE]],
       acc_text    |-> [i \in 1..Len(experience) |->
                          [j \in 1..Len(experience[i].Accomplishments) |->
                             IF kept_acc(i, j) THEN s.acc_text[i][j]
                             ELSE experience[i].Accomplishments[j]]]]

\* a generation whose review widgets have keys without the version
Generated_UnversionedKeys(s, response_dict) ==
  [s EXCEPT !.generated_profile = response_dict,
            !.profile_version = s.profile_version + 1,
            !.generated_pdf_cl = PdfNone,
            !.generated_pdf_resume = PdfNone,
            !.job_include = DrawWidgets(s, response_dict, s.profile_version).job_include,
            !.acc_include = DrawWidgets(s, response_dict, s.profile_version).acc_include,
            !.acc_text = DrawWidgets(s, response_dict, s.profile_version).acc_text]

\* st.session_state after "if response_dict:" and the script run that
\* follows: the new profile, both PDFs None, profile_version one up, and the
\* review widgets drawn under the keys of the new version
Generated(s, response_dict) ==
  [s EXCEPT !.generated_profile = response_dict,
            !.profile_version = s.profile_version + 1,
            !.generated_pdf_cl = PdfNone,
            !.generated_pdf_resume = PdfNone,
            !.job_include = DrawWidgets(s, response_dict, s.profile_version + 1).job_include,
            !.acc_include = DrawWidgets(s, response_dict, s.profile_version + 1).acc_include,
            !.acc_text = DrawWidgets(s, response_dict, s.profile_version + 1).acc_text]

\* a loop over the accomplishments that starts at the second one
new_accs_SkipFirst(original_accs, include, text) ==
  LET kept == SelectSeq([j \in 1..Len(original_accs) |-> j],
                        LAMBDA j : j > 1 /\ include[j] /\ strip(text[j]) # "")
  IN  [k \in 1..Len(kept) |-> text[kept[k]]]

\* the new_accs list of one job: the edited text of every accomplishment
\* whose checkbox is ticked and whose text is not blank, in the original order
new_accs(original_accs, include, text) ==
  LET kept == SelectSeq([j \in 1..Len(original_accs) |-> j],
                        LAMBDA j : include[j] /\ strip(text[j]) # "")
  IN  [k \in 1..Len(kept) |-> text[kept[k]]]

\* an assembly that keeps every job whatever its checkbox says
new_experience_AllJobs(original_experience, s) ==
  [i \in 1..Len(original_experience) |->
     Job(original_experience[i].key, original_experience[i].Summary,
         new_accs(original_experience[i].Accomplishments, s.acc_include[i], s.acc_text[i]))]

\* the new_experience dict as the list of its items: every job whose checkbox
\* is ticked, in the original order, with its summary and its new_accs
new_experience(original_experience, s) ==
  LET kept == SelectSeq([i \in 1..Len(original_experience) |-> i],
                        LAMBDA i : s.job_include[i])
  IN  [k \in 1..Len(kept) |->
         Job(original_experience[kept[k]].key, original_experience[kept[k]].Summary,
             new_accs(original_experience[kept[k]].Accomplishments,
                      s.acc_include[kept[k]], s.acc_text[kept[k]]))]

\* final_data: the copy of the profile with Resume.Experience replaced
final_data(content, s) ==
  [content |-> content, Experience |-> new_experience(Experience(content), s)]

\* the record of a "Generate Assets" press: the job description given, the
\* messages shown, the number of completion requests sent, the response_dict
GenerateCall(job_description, msgs, sent, response_dict) ==
  [op |-> "generate", job_description |-> job_description, msgs |-> msgs,
   sent |-> sent, ret |-> response_dict]

\* a worksheet with its header and one row of alice, the connection not yet
\* made in this process, the completion client not configured, a new session
InitGenerate ==
  /\ sheet = <<expected_headers, row_data(IdOf(1), E1, "alice")>>
  /\ nextId = 1
  /\ conn = "unset"
  /\ prev = sheet
  /\ last = Call("start", "-", "-", NoEntry, {}, FALSE, <<>>)
  /\ api = FALSE
  /\ session = NewSession
  /\ procs = NoProcs
  /\ hist = NoHist

\* "Generate Assets" pressed without a job description
GenerateInvalid ==
  /\ session.authentication_status
  /\ last' = GenerateCall("", {"need_job_description"}, 0, None)
  /\ prev' = sheet
  /\ UNCHANGED <<sheet, conn, nextId, api, session, procs, hist>>

\* "Generate Assets" with a job description when get_accomplishments gives an
\* empty frame: no sheet, a read that raises, or no row of this user
GenerateNoAccomplishments ==
  \E user \in CurrentUsers(session), c \in get_gsheet_connection(conn), failing \in BOOLEAN :
    LET frames == IF c = "none" THEN {[df |-> <<>>, msgs |-> {}]}
                  ELSE get_accomplishments(sheet, user, failing)
    IN  /\ \E r \in frames :
             /\ r.df = <<>>
             /\ last' = GenerateCall("job description",
                                     ConnectMsgs(conn, c) \cup r.msgs \cup {"no_accomplishments"},
                                     0, None)
        /\ conn' = c
        /\ prev' = sheet
        /\ UNCHANGED <<sheet, nextId, api, session, procs, hist>>

\* "Generate Assets" with a job description and accomplishments at hand:
\* generate_structured_content, then the new profile or the failure message
GenerateAssets ==
  /\ session.authentication_status
  /\ "sheet" \in get_gsheet_connection(conn)
  /\ session.profile_version < MaxGenerations
  /\ \E user \in CurrentUsers(session) : \E f \in get_accomplishments(sheet, user, FALSE) : f.df # <<>>
  /\ \E secret \in Secrets, resp \in Responses(ProfileTexts) :
    /\ LET r == generate_structured_content(api, secret, resp)
           sent == IF init_gemini(api, secret).ok THEN 1 ELSE 0
       IN  /\ api' = r.api
           /\ session' = IF Truthy(r.ret) THEN Generated(session, r.ret) ELSE session
           /\ hist' = IF Truthy(r.ret)
                      THEN [hist EXCEPT !.left_out = FALSE, !.profile_user = session.username]
                      ELSE hist
           /\ last' = GenerateCall("job description",
                                   r.msgs \cup (IF Truthy(r.ret) THEN {"draft_generated"}
                                                ELSE {"generate_failed"}),
                                   sent, r.ret)
    /\ conn' = "sheet"
    /\ prev' = sheet
    /\ UNCHANGED <<sheet, nextId, procs>>

\* the record of a change made in the Review tab
ReviewCall == [op |-> "review", msgs |-> {}]

\* the checkbox of job i is clicked; while a job is not included the widgets
\* of its accomplishments are not drawn, so their state is dropped and they
\* come back as first drawn
ToggleJob ==
  \E i \in DOMAIN session.job_include :
    /\ IsDict(session.generated_profile)
    /\ session' = [session EXCEPT
                     !.job_include[i] = ~@,
                     !.acc_include[i] = ReviewWidgets(session.generated_profile).acc_include[i],
                     !.acc_text[i] = ReviewWidgets(session.generated_profile).acc_text[i]]
    /\ last' = ReviewCall
    /\ prev' = sheet
    /\ UNCHANGED <<sheet, conn, nextId, api, procs, hist>>

\* the checkbox of accomplishment j of an included job i is clicked
ToggleAccomplishment ==
  \E i \in DOMAIN session.acc_include :
    \E j \in DOMAIN session.acc_include[i] :
      /\ IsDict(session.generated_profile)
      /\ session.job_include[i]
      /\ session' = [session EXCEPT !.acc_include[i][j] = ~@]
      /\ last' = ReviewCall
      /\ prev' = sheet
      /\ UNCHANGED <<sheet, conn, nextId, api, procs, hist>>

\* the text of accomplishment j of an included job i is typed over
EditAccomplishment ==
  \E i \in DOMAIN session.acc_text :
    \E j \in DOMAIN session.acc_text[i], text \in EditTexts :
      /\ IsDict(session.generated_profile)
      /\ session.job_include[i]
      /\ session' = [session EXCEPT !.acc_text[i][j] = text]
      /\ last' = ReviewCall
      /\ prev' = sheet
      /\ UNCHANGED <<sheet, conn, nextId, api, procs, hist>>

\* some checkbox of the review widgets is not ticked
SomeLeftOut(s) ==
  \/ \E i \in DOMAIN s.job_include : ~s.job_include[i]
  \/ \E i \in DOMAIN s.acc_include : \E j \in DOMAIN s.acc_include[i] : ~s.acc_include[i][j]

\* a finalize that stores what it assembled as the generated profile: after
\* an assembly that left a job out the stored profile has lost its jobs
Finalize_StoresFinalData ==
  \E cl_outcome \in RenderOutcomes, resume_outcome \in RenderOutcomes :
    /\ IsDict(session.generated_profile)
    /\ LET data == final_data(session.generated_profile, session)
           stored == IF Len(data.Experience) = Len(Experience(session.generated_profile))
                     THEN session.generated_profile ELSE <<"{", "a", "1", "}">>
       IN  /\ session' = [session EXCEPT !.generated_profile = stored,
                                         !.job_include = ReviewWidgets(stored).job_include,
                                         !.acc_include = ReviewWidgets(stored).acc_include,
                                         !.acc_text = ReviewWidgets(stored).acc_text]
           /\ last' = [op |-> "finalize", final_data |-> data, rendered |-> <<>>,
                       outcomes |-> [cl |-> cl_outcome, resume |-> resume_outcome],
                       msgs |-> {"pdfs_generated"}]
    /\ prev' = sheet
    /\ UNCHANGED <<sheet, conn, nextId, api, procs, hist>>

\* "Apply Changes & Generate PDFs": final_data is assembled from the widget
\* states, both PDFs are rendered and stored, "PDFs Generated!" is shown
Finalize ==
  \E cl_outcome \in RenderOutcomes, resume_outcome \in RenderOutcomes :
    /\ session.authentication_status
    /\ IsDict(session.generated_profile)
    /\ LET data == final_data(session.generated_profile, session)
           version == session.profile_version
           cl == create_cover_letter_pdf(data, cl_outcome, version)
           resume == create_resume_pdf(data, resume_outcome, version)
       IN  /\ session' = [session EXCEPT !.generated_pdf_cl = cl,
                                         !.generated_pdf_resume = resume.pdf]
           /\ last' = [op |-> "finalize", final_data |-> data, rendered |-> resume.jobs,
                       outcomes |-> [cl |-> cl_outcome, resume |-> resume_outcome],
                       msgs |-> {"pdfs_generated"}]
    /\ hist' = [hist EXCEPT !.left_out = @ \/ SomeLeftOut(session)]
    /\ prev' = sheet
    /\ UNCHANGED <<sheet, conn, nextId, api, procs>>

NextGenerate ==
  \/ GetAvailableModels
  \/ LogSubmitInvalid
  \/ LogSubmitNoSheet
  \/ StoreCallFails
  \/ GenerateInvalid
  \/ GenerateNoAccomplishments
  \/ GenerateAssets
  \/ ToggleJob
  \/ ToggleAccomplishment
  \/ EditAccomplishment
  \/ Finalize

SpecGenerate == InitGenerate /\ [][NextGenerate]_vars

----------------------------------------------------------------------------
(* Home.py: the History view *)

\* str(value) of a cell of the frame
str(value) ==
  CASE value = PyNone   -> "None"
    [] value = PyNaN    -> "nan"
    [] value = "int:42" -> "42"
    [] OTHER            -> value

\* df_acc.reset_index(drop=True): the rows are labelled 0, 1, ... in the
\* order they are shown
reset_index(df) == [i \in 1..Len(df) |-> [df[i] EXCEPT !.index = i - 1]]

\* what the user does to a row of the editor: nothing, remove it, or type
\* the fields of an entry over its cells
RowEdits == {"keep", "drop", "E1", "E3"}

\* the entry typed over the cells
EditorInput(edit) == IF edit = "E1" THEN E1 ELSE E3

\* a row of the editor with the content cells typed over
EditedRow(row, e) ==
  [row EXCEPT !.rec = [k \in DOMAIN @ |->
     IF k \in DOMAIN e THEN e[k] ELSE @[k]]]

\* the row the editor appends for "add row": the next label of the range
\* index, every cell None
AddedRow(df) == [index |-> Len(df), rec |-> [k \in Columns(df) |-> PyNone]]

\* edited_df = st.data_editor(df_acc, num_rows="dynamic"): the rows that were
\* not removed, under their labels, typed over where the user typed, and
\* after them the added row
data_editor(df, edits, added) ==
  LET kept == SelectSeq([i \in 1..Len(df) |-> i], LAMBDA i : edits[i] # "drop")
  IN  [k \in 1..Len(kept) |->
         IF edits[kept[k]] = "keep" THEN df[kept[k]]
         ELSE EditedRow(df[kept[k]], EditorInput(edits[kept[k]]))]
      \o (IF added THEN <<AddedRow(df)>> ELSE <<>>)

\* the has_changes flag: some column whose str() differs from the snapshot's
has_changes(row, original_row) ==
  \E col \in DOMAIN original_row.rec : str(row.rec[col]) # str(original_row.rec[col])

\* the keyword arguments of the update_accomplishment call for a row
UpdateArgs(row) ==
  [id_val |-> str(row.rec["id"]),
   entry |-> [date |-> str(row.rec["date"]), category |-> row.rec["category"],
              description |-> row.rec["description"],
              impact_metric |-> row.rec["impact_metric"],
              company |-> row.rec["company"], title |-> row.rec["title"]]]

\* the outcome of the Save loop: the worksheet, the update_accomplishment
\* calls made in their order, the messages of the calls, and whether the
\* loop ended in an exception
SaveOutcome(s, calls, msgs, raised) ==
  [sheet |-> s, calls |-> calls, msgs |-> msgs, raised |-> raised]

\* a loop that also removes from the worksheet the rows removed in the editor
RECURSIVE iterrows_SyncsRows(_, _, _, _, _)
iterrows_SyncsRows(s, df_acc, edited_df, k, fail_at) ==
  LET gone == {i \in 1..Len(df_acc) :
                 \A j \in 1..Len(edited_df) : edited_df[j].index # df_acc[i].index}
  IN  IF gone # {}
      THEN LET i == CHOOSE i \in gone : TRUE
           IN  SaveOutcome(delete_accomplishment(s, str(df_acc[i].rec["id"]), FALSE).sheet,
                           <<>>, {}, FALSE)
      ELSE SaveOutcome(s, <<>>, {}, FALSE)

\* for index, row in edited_df.iterrows(), from row k on: the snapshot row
\* is df_acc.iloc[index], which raises IndexError for a label past the
\* snapshot; a changed row is handed to update_accomplishment, whose
\* fail_at-th call has a gspread request that raises and is swallowed
RECURSIVE iterrows(_, _, _, _, _)
iterrows(s, df_acc, edited_df, k, fail_at) ==
  IF k > Len(edited_df) THEN SaveOutcome(s, <<>>, {}, FALSE)
  ELSE LET row == edited_df[k]
       IN  IF row.index >= Len(df_acc) THEN SaveOutcome(s, <<>>, {}, TRUE)
           ELSE IF ~has_changes(row, df_acc[row.index + 1])
                THEN iterrows(s, df_acc, edited_df, k + 1, fail_at)
           ELSE IF "id" \notin DOMAIN row.rec THEN SaveOutcome(s, <<>>, {}, TRUE)
           ELSE LET args == UpdateArgs(row)
                    r    == update_accomplishment(s, args.id_val, args.entry, fail_at = 1)
                    rest == iterrows(r.sheet, df_acc, edited_df, k + 1, fail_at - 1)
                IN  SaveOutcome(rest.sheet, <<args>> \o rest.calls,
                                r.msgs \cup rest.msgs, rest.raised)

\* "Save Changes": the loop, then the success message when changes_count is
\* positive, "No changes detected." when it is 0, and the message of the
\* except branch of the view when the loop raised
save_changes(s, df_acc, edited_df, fail_at) ==
  LET r == iterrows(s, df_acc, edited_df, 1, fail_at)
  IN  [r EXCEPT !.msgs = @ \cup (IF r.raised THEN {"history_error"}
                                 ELSE IF Len(r.calls) > 0 THEN {"updated"}
                                 ELSE {"no_changes"})]

\* the record of a "Save Changes" press
SaveCall(user, df_acc, edited_df, r) ==
  [op |-> "save", user |-> user, df_acc |-> df_acc, edited_df |-> edited_df,
   calls |-> r.calls, msgs |-> r.msgs, raised |-> r.raised]

\* the History view of a logged-in user with rows to show: the frame is
\* loaded, the user edits the table and presses "Save Changes"
SaveChanges ==
  /\ conn = "sheet"
  /\ \E user \in Users :
       \E f \in get_accomplishments(sheet, user, FALSE) :
         /\ f.df # <<>>
         /\ LET df_acc == reset_index(f.df)
            IN  \E edits \in [1..Len(df_acc) -> RowEdits], added \in BOOLEAN,
                   fail_at \in 0..Len(df_acc) :
                  /\ \A i \in 1..Len(df_acc) :
                       edits[i] \notin {"keep", "drop"} =>
                          Known(EditorInput(edits[i]).description, nextId)
                  /\ LET edited_df == data_editor(df_acc, edits, added)
                         r == save_changes(sheet, df_acc, edited_df, fail_at)
                     IN  /\ sheet' = r.sheet
                         /\ last' = SaveCall(user, df_acc, edited_df, r)
  /\ prev' = sheet
  /\ UNCHANGED <<conn, nextId, api, session, procs, hist>>

\* the worksheet of a deployment: the header and two rows of alice
InitHistory ==
  /\ sheet = <<expected_headers, row_data(IdOf(1), E1, "alice"),
               row_data(IdOf(2), E2, "alice")>>
  /\ nextId = 2
  /\ conn = "unset"
  /\ prev = sheet
  /\ last = Call("start", "-", "-", NoEntry, {}, FALSE, <<>>)
  /\ api = FALSE
  /\ session = NewSession
  /\ procs = NoProcs
  /\ hist = NoHist

NextHistory ==
  \/ InitDb
  \/ DeleteEntry
  \/ SaveChanges

SpecHistory == InitHistory /\ [][NextHistory]_vars

----------------------------------------------------------------------------
(* Home.py: login, logout and the voice capture of the Log view *)

\* "username" is not in st.session_state
Absent == "<absent>"

\* the responses to a recording: a full entry, an entry whose date is no
\* date and that has no impact_metric behind a word of prose, prose
VoiceTexts == {<<"{", "entry1", "}">>, <<"x", "sp", "{", "entry2", "}">>, <<"x">>}

\* the six st.session_state assignments from parsed_data: the date through
\* strptime('%Y-%m-%d'), today when it does not parse, the others through
\* parsed_data.get(key, '')
FormFields(parsed_data) ==
  CASE parsed_data = <<"{", "entry1", "}">> ->
         [acc_date |-> "2024-01-10", acc_category |-> "Tech", acc_company |-> "Acme",
          acc_title |-> "Engineer", acc_description |-> "Led migration",
          acc_impact |-> "cut costs 20%"]
    [] parsed_data = <<"{", "entry2", "}">> ->
         [acc_date |-> "today", acc_category |-> "Sales", acc_company |-> "Initech",
          acc_title |-> "Manager", acc_description |-> "Hired team", acc_impact |-> ""]
    [] OTHER -> IdleForm

\* the record of a script run that found a recording in st.audio_input
VoiceCall(r, msgs) == [op |-> "voice", ret |-> r.ret, msgs |-> r.msgs \cup msgs]

\* a recording is in st.audio_input: process_audio_to_form, then the six
\* fields are filled from parsed_data, or the warning is shown
VoiceCapture ==
  \E secret \in Secrets, resp \in Responses(VoiceTexts) :
    /\ session.authentication_status
    /\ LET r == process_audio_to_form(api, secret, resp)
       IN  /\ api' = r.api
           /\ session' = IF Truthy(r.ret) THEN [session EXCEPT !.acc = FormFields(r.ret)]
                         ELSE session
           /\ hist' = IF Truthy(r.ret) THEN [hist EXCEPT !.form_user = session.username]
                      ELSE hist
           /\ last' = VoiceCall(r, IF Truthy(r.ret) THEN {"parsed_toast"}
                                   ELSE {"could_not_parse"})
    /\ prev' = sheet
    /\ UNCHANGED <<sheet, conn, nextId, procs>>

\* the record of a press of "Log In" or "Log Out"
AuthCall(op, user, msgs) == [op |-> op, user |-> user, msgs |-> msgs]

\* "Log In" with a username and password of st.secrets["credentials"]
Login ==
  \E user \in Users :
    /\ ~session.authentication_status
    /\ session' = [session EXCEPT !.authentication_status = TRUE, !.username = user]
    /\ last' = AuthCall("login", user, {})
    /\ prev' = sheet
    /\ UNCHANGED <<sheet, conn, nextId, api, procs, hist>>

\* "Log In" with an unknown user or a wrong password
LoginFails ==
  /\ ~session.authentication_status
  /\ last' = AuthCall("login", "-", {"login_error"})
  /\ prev' = sheet
  /\ UNCHANGED <<sheet, conn, nextId, api, session, procs, hist>>

\* "Log Out": authentication_status False, username None, nothing else of
\* st.session_state is touched; the run that follows draws the login form
\* only, so the states of the review widgets are dropped
Logout ==
  /\ session.authentication_status
  /\ session' = [session EXCEPT
                   !.authentication_status = FALSE,
                   !.username = PyNone,
                   !.job_include = ReviewWidgets(session.generated_profile).job_include,
                   !.acc_include = ReviewWidgets(session.generated_profile).acc_include,
                   !.acc_text = ReviewWidgets(session.generated_profile).acc_text]
  /\ last' = AuthCall("logout", session.username, {})
  /\ prev' = sheet
  /\ UNCHANGED <<sheet, conn, nextId, api, procs, hist>>

\* a deployed worksheet with one row of alice and a browser session that
\* shows the login form
InitSession ==
  /\ sheet = <<expected_headers, row_data(IdOf(1), E1, "alice")>>
  /\ nextId = 1
  /\ conn = "unset"
  /\ prev = sheet
  /\ last = Call("start", "-", "-", NoEntry, {}, FALSE, <<>>)
  /\ api = FALSE
  /\ session = [NewSession EXCEPT !.authentication_status = FALSE, !.username = Absent]
  /\ procs = NoProcs
  /\ hist = NoHist

NextSession ==
  \/ Login
  \/ LoginFails
  \/ Logout
  \/ VoiceCapture
  \/ LogSubmit
  \/ GenerateAssets
  \/ Finalize

SpecSession == InitSession /\ [][NextSession]_vars

----------------------------------------------------------------------------
(* db_manager.py: store calls of two sessions, one gspread request a step *)

\* the browser sessions that share the worksheet
Sessions == {"s1", "s2"}

\* a session with no store call under way
Idle == [pc |-> "idle", id |-> "-", entry |-> NoEntry, row |-> 0]

\* a session between sheet.find and the request that uses cell.row
Found(op, id_val, e, row) == [pc |-> op, id |-> id_val, entry |-> e, row |-> row]

\* the fields of the edited rows that the two sessions send
RaceInputs == {E1, E2}

\* the record of one gspread request of a session
Request(op, p, id_val, e, row, msgs) ==
  [op |-> op, proc |-> p, id |-> id_val, entry |-> e, row |-> row, msgs |-> msgs,
   overlapped |-> p \in hist.overlap]

\* the grid below the last row that holds data is blank
Grid(s, r) == [i \in 1..Max(Len(s), r) |-> IF i <= Len(s) THEN s[i] ELSE <<>>]

\* sheet.update(range_name="B{row_num}:G{row_num}") with the row number that
\* find returned earlier
update_at(s, row_num, e) ==
  update_range(Grid(s, row_num), row_num,
               <<e.date, e.category, e.description,
                 IF e.impact_metric \in {PyNone, ""} THEN "" ELSE e.impact_metric,
                 e.company, e.title>>)

\* sheet.delete_rows(cell.row) with the row number that find returned earlier
delete_at(s, row) == IF row <= Len(s) THEN delete_rows(s, row) ELSE s

\* the other session's update of the same id is between its find and its write
SameUpdate(p, id_val) ==
  {q \in Sessions \ {p} : procs[q].pc = "update" /\ procs[q].id = id_val}

\* update_accomplishment up to cell = sheet.find(str(id_val)): the warning
\* when no cell is found, else the row number is kept for the write
UpdateFind(p) ==
  \E id_val \in Uuids, e \in RaceInputs :
    /\ procs[p].pc = "idle"
    /\ LET row_num == find(sheet, id_val)
       IN  /\ procs' = IF row_num # 0
                       THEN [procs EXCEPT ![p] = Found("update", id_val, e, row_num)]
                       ELSE procs
           /\ hist' = IF row_num # 0 /\ SameUpdate(p, id_val) # {}
                      THEN [hist EXCEPT !.overlap = @ \cup {p} \cup SameUpdate(p, id_val)]
                      ELSE hist
           /\ last' = Request("update_find", p, id_val, e, row_num,
                              IF row_num # 0 THEN {} ELSE {"update_warning"})
    /\ prev' = sheet
    /\ UNCHANGED <<sheet, conn, nextId, api, session>>

\* update_accomplishment from sheet.update on: the range of the row number
\* is written in one request, or the request raises and the error is shown
UpdateWrite(p) ==
  \E failing \in BOOLEAN :
    /\ procs[p].pc = "update"
    /\ sheet' = IF failing THEN sheet ELSE update_at(sheet, procs[p].row, procs[p].entry)
    /\ procs' = [procs EXCEPT ![p] = Idle]
    /\ hist' = [hist EXCEPT !.overlap = @ \ {p}]
    /\ last' = Request("update_write", p, procs[p].id, procs[p].entry, procs[p].row,
                       IF failing THEN {"update_error"} ELSE {})
    /\ prev' = sheet
    /\ UNCHANGED <<conn, nextId, api, session>>

\* delete_accomplishment up to cell = sheet.find(str(id_val))
DeleteFind(p) ==
  \E id_val \in Uuids :
    /\ procs[p].pc = "idle"
    /\ LET row == find(sheet, id_val)
       IN  /\ procs' = IF row # 0
                       THEN [procs EXCEPT ![p] = Found("delete", id_val, NoEntry, row)]
                       ELSE procs
           /\ last' = Request("delete_find", p, id_val, NoEntry, row,
                              IF row # 0 THEN {} ELSE {"delete_warning"})
    /\ prev' = sheet
    /\ UNCHANGED <<sheet, conn, nextId, api, session, hist>>

\* delete_accomplishment from sheet.delete_rows(cell.row) on
DeleteRows(p) ==
  \E failing \in BOOLEAN :
    /\ procs[p].pc = "delete"
    /\ sheet' = IF failing THEN sheet ELSE delete_at(sheet, procs[p].row)
    /\ procs' = [procs EXCEPT ![p] = Idle]
    /\ last' = Request("delete_write", p, procs[p].id, NoEntry, procs[p].row,
                       IF failing THEN {"delete_error"} ELSE {})
    /\ prev' = sheet
    /\ UNCHANGED <<conn, nextId, api, session, hist>>

\* add_accomplishment of a session: one append_row request
AddRow(p) ==
  \E e \in RaceInputs :
    /\ procs[p].pc = "idle"
    /\ nextId < MaxIds
    /\ sheet' = add_accomplishment(sheet, IdOf(nextId + 1), e, "alice", FALSE).sheet
    /\ nextId' = nextId + 1
    /\ last' = Request("add", p, IdOf(nextId + 1), e, Len(sheet) + 1, {})
    /\ prev' = sheet
    /\ UNCHANGED <<conn, api, session, procs, hist>>

\* a connected worksheet with one row of alice, two sessions with no call
\* under way
InitRace ==
  /\ sheet = <<expected_headers, row_data(IdOf(1), E1, "alice")>>
  /\ nextId = 1
  /\ conn = "sheet"
  /\ prev = sheet
  /\ api = FALSE
  /\ session = NewSession
  /\ procs = [p \in Sessions |-> Idle]
  /\ hist = NoHist
  /\ last = Request("start", "-", "-", NoEntry, 0, {})

NextRace ==
  \E p \in Sessions :
    \/ UpdateFind(p)
    \/ UpdateWrite(p)
    \/ DeleteFind(p)
    \/ DeleteRows(p)
    \/ AddRow(p)

SpecRace == InitRace /\ [][NextRace]_vars

----------------------------------------------------------------------------
(* Vocabulary of the properties *)

\* the rows of s that carry v as their id (column A), v an id handed out
RowsWithId(s, v) == {r \in 1..Len(s) : v \in Uuids /\ s[r][1] = v}

\* row 1 of s is the header row init_db writes
HeaderStands(s) == Len(s) >= 1 /\ s[1] = expected_headers

\* the rows of s written by add_accomplishment
DataRows(s) == {r \in 1..Len(s) : s[r][1] \in Uuids}

\* cell c of row r, blank when the row ends before it
Cell(s, r, c) == PadRow(s[r], c)[c]

\* s without its row r
Without(s, r) == [i \in 1..(Len(s) - 1) |-> IF i < r THEN s[i] ELSE s[i + 1]]

\* the content cells an entry is stored as
Stored(e) == <<e.date, e.category, e.description,
               IF e.impact_metric = PyNone THEN "" ELSE e.impact_metric,
               e.company, e.title>>

\* the last operation was this call, made with the sheet in hand, and its
\* gspread requests did not raise
Reached(op) == last.op = op /\ conn = "sheet" /\ ~last.raised /\ last.id # "-"

\* the last operation was a get_accomplishments that read the sheet
Listed == last.op = "list" /\ conn = "sheet" /\ last.user # "-"

\* the frame returned holds the row with this id
Includes(df, id) == \E i \in 1..Len(df) : "id" \in DOMAIN df[i].rec /\ df[i].rec["id"] = id

\* the last operation was a call of this function of the completion client
Called(op) == last.op = op

\* the call reached the backend and got a response with one candidate that
\* stopped normally and has content parts
Answered == last.configured /\ ~last.resp.raises /\ last.resp.candidates = 1
            /\ last.resp.finish_reason = 1 /\ last.resp.parts

\* no part of the text is a JSON value
Unparsable(text) ==
  \A i, j \in 1..Len(text) : i <= j => json_loads(SubSeq(text, i, j)).exc # ""

RECURSIVE Closing(_, _, _)
\* the position of the "}" that brings the brace depth back to 0, scanning
\* from token i at this depth; 0 when the braces never close
Closing(text, i, depth) ==
  IF i > Len(text) THEN 0
  ELSE IF text[i] = "{" THEN Closing(text, i + 1, depth + 1)
  ELSE IF text[i] = "}" THEN (IF depth = 1 THEN i ELSE Closing(text, i + 1, depth - 1))
  ELSE Closing(text, i + 1, depth)

\* the first balanced {...} of the text: from its first "{" to the "}" that
\* closes it; <<>> when there is none
FirstBalanced(text) ==
  LET opens == {i \in 1..Len(text) : text[i] = "{"}
      first == CHOOSE i \in opens : \A k \in opens : i <= k
  IN  IF opens = {} \/ Closing(text, first + 1, 1) = 0 THEN <<>>
      ELSE SubSeq(text, first, Closing(text, first + 1, 1))

\* the last operation was "Apply Changes & Generate PDFs"
Finalized == last.op = "finalize"

\* the bullets are texts of accomplishments of job i whose checkbox is
\* ticked, each taken from a later accomplishment than the one before
DrawnFromIncluded(bullets, i) ==
  \E f \in [DOMAIN bullets -> {j \in DOMAIN session.acc_include[i] : session.acc_include[i][j]}] :
     /\ \A m, n \in DOMAIN bullets : m < n => f[m] < f[n]
     /\ \A m \in DOMAIN bullets : bullets[m] = session.acc_text[i][f[m]]

\* every job and every accomplishment is included and no text was typed over
LeftAsGenerated ==
  /\ \A i \in DOMAIN session.job_include : session.job_include[i]
  /\ session.acc_include = ReviewWidgets(session.generated_profile).acc_include
  /\ session.acc_text = ReviewWidgets(session.generated_profile).acc_text

\* the accomplishments that are not blank, in their order
NonBlank(accomplishments) == SelectSeq(accomplishments, LAMBDA text : strip(text) # "")

\* the PDF outputs of the session
PdfOutputs == {session.generated_pdf_cl, session.generated_pdf_resume}

\* a download button is drawn for this output: the Review and Finalize tabs
\* are drawn for a profile that is a dict, the button for bytes that are true
Offered(pdf) == IsDict(session.generated_profile) /\ pdf.state = "bytes"

\* the last operation was a "Generate Assets" that stored a new profile
GeneratedDraft == last.op = "generate" /\ "draft_generated" \in last.msgs

\* the renderer failed for this output of the last finalize
RenderFailed(output) == Finalized /\ last.outcomes[output] = "err"

\* the operation just done is a Log submit without a description
RejectedLogSubmit(call) == call.op = "add" /\ call.entry.description = ""

\* the operation just done is a "Generate Assets" without a job description
RejectedGenerate(call) == call.op = "generate" /\ call.job_description = ""

\* the st.success reports of the views
SuccessMsgs == {"saved", "updated", "draft_generated", "pdfs_generated"}

\* the st.error reports of the views and of the functions they call
ErrorMsgs == {"connect_error", "add_error", "save_error", "fetch_error", "delete_error",
              "update_error", "no_accomplishments", "generate_failed", "render_failed",
              "no_api_key", "configure_error", "structured_error", "no_candidates",
              "stopped", "decode_error"}

\* the operation just done failed: a store call without a sheet (c is the
\* connection it got) or with a request that raised, a generation with a job
\* description that brought no profile, a finalize whose renderer failed
Failed(call, c) ==
  \/ /\ call.op \in {"add", "list", "delete", "update"}
     /\ ~RejectedLogSubmit(call)
     /\ \/ c = "none"
        \/ call.msgs \cap {"add_error", "fetch_error", "delete_error", "update_error"} # {}
  \/ /\ call.op = "generate"
     /\ ~RejectedGenerate(call)
     /\ ~Truthy(call.ret)
  \/ /\ call.op = "finalize"
     /\ \E output \in {"cl", "resume"} : call.outcomes[output] = "err"

\* the ids of the rows of s written by add_accomplishment
RowIds(s) == {Cell(s, r, 1) : r \in DataRows(s)}

\* the last operation was a press of "Save Changes"
Saved == last.op = "save"

\* the rows of the edited table that have a row of the same label in the
\* snapshot and differ from it in the value of at least one field
DifferingRows(call) ==
  SelectSeq(call.edited_df,
            LAMBDA row : /\ row.index < Len(call.df_acc)
                         /\ row.rec # call.df_acc[row.index + 1].rec)

\* a row of the snapshot is missing from the edited table
RowRemoved(call) ==
  \E i \in 1..Len(call.df_acc) :
     \A j \in 1..Len(call.edited_df) : call.edited_df[j].index # call.df_acc[i].index

\* the edited table has a row that the snapshot has not
RowAdded(call) ==
  \E j \in 1..Len(call.edited_df) : call.edited_df[j].index >= Len(call.df_acc)

\* the texts of column A of the rows of s
ColumnA(s) == [r \in 1..Len(s) |-> Cell(s, r, 1)]

\* the last operation was an init_db that had the sheet in hand and whose
\* gspread requests did not raise
InitDone == last.op = "init" /\ conn = "sheet" /\ "init_error" \notin last.msgs

----------------------------------------------------------------------------
(* C1 *)

\* C1: an add_accomplishment call with a non-empty description that reaches
\* the sheet leaves the table with exactly one more row; the new row carries
\* an id found in no earlier row, the submitted date, category, description,
\* impact_metric, company and title, and the submitting user; every earlier
\* row is unchanged.
C1_AddAppendsOneRow ==
  (Reached("add") /\ last.entry.description # "") =>
     /\ Len(sheet) = Len(prev) + 1
     /\ \A r \in 1..Len(prev) : sheet[r] = prev[r]
     /\ \A r \in 1..Len(prev) : prev[r][1] # last.id
     /\ PadRow(sheet[Len(sheet)], 8) = <<last.id>> \o Stored(last.entry) \o <<last.user>>

\* an add without impact metric, made on a table that holds a header and a row
C1_Witness ==
  /\ Reached("add")
  /\ last.entry = E2
  /\ Len(prev) >= 2
  /\ Len(sheet) = Len(prev) + 1

----------------------------------------------------------------------------
(* C2 *)

\* C2: on a table whose header row stands, get_accomplishments(A) returns no
\* row whose user cell differs from A, for every A a session can pass, the
\* empty string included.
C2_ListReturnsOnlyOwnRows ==
  (Listed /\ HeaderStands(sheet)) => \A i \in 1..Len(last.df) : Cell(sheet, last.df[i].index + 2, 8) = last.user

----------------------------------------------------------------------------
(* C3 *)

\* C3: on a table whose header row stands, whatever its other cells hold,
\* update_accomplishment(id, fields) with the id of an existing row changes only the content columns B..G of the row with that id; that row's
\* id and user and every other row, the header row included, are unchanged.
C3_UpdateTouchesOnlyItsRow ==
  (Reached("update") /\ HeaderStands(prev) /\ RowsWithId(prev, last.id) # {}) =>
     /\ Len(sheet) = Len(prev)
     /\ \A r \in 1..Len(prev) :
          IF r \in RowsWithId(prev, last.id)
          THEN Cell(sheet, r, 1) = Cell(prev, r, 1) /\ Cell(sheet, r, 8) = Cell(prev, r, 8)
          ELSE sheet[r] = prev[r]

----------------------------------------------------------------------------
(* C4 *)

\* C4: in every state reached by init, add, update and delete operations, no
\* two rows of the table have the same id (column A).
C4_IdsAreUnique ==
  \A r1, r2 \in 1..Len(sheet) : r1 # r2 => sheet[r1][1] # sheet[r2][1]

\* two data rows stand in the table after an update rewrote one of them
C4_Witness ==
  /\ Cardinality(DataRows(sheet)) >= 2
  /\ last.op = "update"
  /\ sheet # prev

----------------------------------------------------------------------------
(* C5 *)

\* C5: on a table whose header row stands, whatever its other cells hold,
\* delete_accomplishment(value) for a value that is the id of no row leaves
\* the table as it was and reports a warning, not an error.
C5_DeleteUnknownIdChangesNothing ==
  (Reached("delete") /\ HeaderStands(prev) /\ RowsWithId(prev, last.id) = {}) =>
     /\ sheet = prev
     /\ "delete_warning" \in last.msgs
     /\ "delete_error" \notin last.msgs

----------------------------------------------------------------------------
(* C6 *)

\* C6: on a table whose header row stands, delete_accomplishment(id) for the
\* id of an existing row removes exactly the row carrying that id: one row fewer, every other row keeps
\* its content and its place relative to the others.
C6_DeleteRemovesItsRow ==
  (Reached("delete") /\ HeaderStands(prev) /\ RowsWithId(prev, last.id) # {}) =>
     \E r \in RowsWithId(prev, last.id) : sheet = Without(prev, r)

----------------------------------------------------------------------------
(* C7 *)

\* C7: while the header row stands, every get_accomplishments(A) includes
\* each row add_accomplishment wrote for A that is still in the table, first
\* when its date is later than that of every other row of A, and
\* get_accomplishments(B) includes no row written for another user.
C7_OwnRowsListedOthersNot ==
  (Listed /\ HeaderStands(sheet)) =>
     \A r \in DataRows(sheet) \ {1} :
        IF Cell(sheet, r, 8) = last.user
        THEN /\ Includes(last.df, sheet[r][1])
             /\ (/\ to_datetime(Cell(sheet, r, 2)) # NaT
                 /\ \A q \in DataRows(sheet) \ {1, r} :
                      Cell(sheet, q, 8) = last.user =>
                        to_datetime(Cell(sheet, q, 2)) < to_datetime(Cell(sheet, r, 2)))
                => last.df[1].rec["id"] = sheet[r][1]
        ELSE ~Includes(last.df, sheet[r][1])

----------------------------------------------------------------------------
(* C8 *)

\* C8: while the header row stands, get_accomplishments(user) returns all of
\* the user's rows, and of any two returned rows the one with the later date
\* comes first, rows without a valid date included in the table.
C8_ListIsCompleteAndSorted ==
  (Listed /\ HeaderStands(sheet)) =>
     /\ \A r \in DataRows(sheet) \ {1} :
          Cell(sheet, r, 8) = last.user => Includes(last.df, sheet[r][1])
     /\ \A i, j \in 1..Len(last.df) :
          (/\ to_datetime(last.df[i].rec["date"]) # NaT
           /\ to_datetime(last.df[j].rec["date"]) # NaT
           /\ to_datetime(last.df[i].rec["date"]) > to_datetime(last.df[j].rec["date"]))
          => i < j

----------------------------------------------------------------------------
(* C9 *)

\* C9: the Log view reports "saved successfully" only when add_accomplishment
\* appended a row: when the sheet cannot be reached or the append raises,
\* nothing is appended and the failure is signalled to the form.
C9_SavedOnlyWhenAppended ==
  (last.op = "add" /\ "saved" \in last.msgs) => Len(sheet) = Len(prev) + 1

----------------------------------------------------------------------------
(* C10 *)

\* C10: on a table whose header row stands, update_accomplishment(id, fields)
\* with an id that is the id of no row changes no cell of the table and
\* reports a warning.
C10_UpdateUnknownIdChangesNothing ==
  (Reached("update") /\ HeaderStands(prev) /\ RowsWithId(prev, last.id) = {}) =>
     /\ sheet = prev
     /\ "update_warning" \in last.msgs

----------------------------------------------------------------------------
(* C11 *)

\* C11: after an init_db() that reached the table: an empty table has become
\* the one row id, date, category, description, impact_metric, company,
\* title, user; a row 1 without a 'user' cell has 'user' as a new cell after
\* its last cell and no other cell of the table is changed; a row 1 with a
\* 'user' cell leaves the table as it was; and a further init_db() changes
\* nothing.
C11_InitDbWidensHeaderOnce ==
  InitDone =>
     /\ Len(prev) = 0 => sheet = <<expected_headers>>
     /\ (Len(prev) > 0 /\ "user" \notin RangeOf(prev[1])) =>
           /\ Len(sheet) = Len(prev)
           /\ sheet[1] = prev[1] \o <<"user">>
           /\ \A r \in 2..Len(prev) : sheet[r] = prev[r]
     /\ (Len(prev) > 0 /\ "user" \in RangeOf(prev[1])) => sheet = prev
     /\ init_db(sheet, FALSE).sheet = sheet

\* init_db has widened a header row that had no 'user' cell, with a row below it
C11_Witness ==
  /\ InitDone
  /\ Len(prev) >= 2
  /\ prev[1] = legacy_headers
  /\ sheet[1] = expected_headers
  /\ sheet[2] = prev[2]

----------------------------------------------------------------------------
(* C12 *)

\* C12: no function of the completion client lets an exception reach its
\* caller, and whenever the backend is not configured, the request raises,
\* there is no candidate, the finish reason is not STOP, the candidate has no
\* content parts or the text is unparsable, generate_content returns one of
\* its error strings, process_audio_to_form and generate_structured_content
\* return None, and get_available_models returns the fallback list.
C12_FailuresBecomeValues ==
  /\ Called("get_available_models") =>
       /\ last.exc = ""
       /\ (~last.configured \/ last.resp.raises) => last.ret = FALLBACK_MODELS
  /\ Called("generate_content") =>
       /\ last.exc = ""
       /\ ~Answered => last.ret \in ErrorStrings
  /\ (Called("process_audio_to_form") \/ Called("generate_structured_content")) =>
       /\ last.exc = ""
       /\ (~Answered \/ Unparsable(last.resp.text)) => last.ret = None

----------------------------------------------------------------------------
(* C13 *)

\* C13: for every JSON text t that parses to a mapping m, an answered
\* generate_structured_content returns m when the response text is t alone
\* and when it is t between an opening fence (with or without the json tag)
\* and a closing fence, whatever white space stands before, between and
\* after them.
C13_FencedParsesLikeBare ==
  (Called("generate_structured_content") /\ Answered) =>
     \A t \in MappingTexts :
        /\ \A pre \in Blanks, post \in TrailingBlanks :
             last.resp.text = pre \o t \o post => last.ret = json_loads(t).val
        /\ \A pre \in Blanks, open \in OpeningFences, inner \in Blanks, post \in TrailingBlanks :
             last.resp.text = Fenced(pre, open, inner, t, post) => last.ret = json_loads(t).val

----------------------------------------------------------------------------
(* C14 *)

\* C14: an answered process_audio_to_form returns the mapping parsed from the
\* first balanced JSON object of the response text, whatever stands before
\* and after it, braces after the object included, and None when that gives
\* no object.
C14_FirstBalancedObject ==
  (Called("process_audio_to_form") /\ Answered) =>
     LET object == FirstBalanced(last.resp.text)
     IN  IF object # <<>> /\ json_loads(object).exc = ""
         THEN last.ret = json_loads(object).val
         ELSE last.ret = None

----------------------------------------------------------------------------
(* C15 *)

\* C15: in the data assembled at finalize and in the jobs the resume PDF
\* shows, no job whose checkbox is off appears, whatever the checkboxes of
\* its accomplishments and of the other jobs say, and every job that appears
\* is an included job whose bullets are accomplishments with their checkbox on.
C15_ExcludedNeverAssembled ==
  Finalized =>
     LET experience == Experience(session.generated_profile)
         assembled  == last.final_data.Experience
     IN  /\ \A i \in DOMAIN experience :
              ~session.job_include[i] =>
                 /\ \A k \in DOMAIN assembled : assembled[k].key # experience[i].key
                 /\ \A k \in DOMAIN last.rendered :
                      last.rendered[k].title_company # experience[i].key
         /\ \A k \in DOMAIN assembled :
              \E i \in DOMAIN experience :
                 /\ experience[i].key = assembled[k].key
                 /\ session.job_include[i]
                 /\ DrawnFromIncluded(assembled[k].Accomplishments, i)
         /\ \A k \in DOMAIN last.rendered :
              /\ last.rendered[k].title_company = assembled[k].key
              /\ last.rendered[k].acc_bullets = assembled[k].Accomplishments

\* finalize with the second job of Profile1 switched off and, in the first
\* job, the first accomplishment switched off; the resume PDF was rendered
C15_Witness ==
  /\ Finalized
  /\ session.generated_profile = Profile1
  /\ session.job_include = <<TRUE, FALSE>>
  /\ session.acc_include[1] = <<FALSE, TRUE>>
  /\ Len(last.rendered) = 1

----------------------------------------------------------------------------
(* C16 *)

\* C16: when every job and accomplishment is left included and unmodified,
\* the data assembled at finalize, and the jobs of the resume PDF when it is
\* rendered, are exactly the jobs of the profile in their order, each with
\* exactly its accomplishments in their order.
C16_LeftAsGeneratedRoundTrip ==
  (Finalized /\ LeftAsGenerated) =>
     LET experience == Experience(session.generated_profile)
         assembled  == last.final_data.Experience
     IN  /\ Len(assembled) = Len(experience)
         /\ \A i \in DOMAIN experience :
              /\ assembled[i].key = experience[i].key
              /\ assembled[i].Accomplishments = experience[i].Accomplishments
         /\ last.outcomes.resume = "ok" =>
              /\ Len(last.rendered) = Len(experience)
              /\ \A i \in DOMAIN experience :
                   /\ last.rendered[i].title_company = experience[i].key
                   /\ last.rendered[i].acc_bullets = experience[i].Accomplishments

\* C16 as amended: when every job and accomplishment is left included and
\* unmodified, the data assembled at finalize, and the jobs of the resume PDF
\* when it is rendered, are exactly the jobs of the profile in their order,
\* each with exactly its accomplishments that are not blank, in their order.
C16_LeftAsGeneratedKeepsNonBlank ==
  (Finalized /\ LeftAsGenerated) =>
     LET experience == Experience(session.generated_profile)
         assembled  == last.final_data.Experience
     IN  /\ Len(assembled) = Len(experience)
         /\ \A i \in DOMAIN experience :
              /\ assembled[i].key = experience[i].key
              /\ assembled[i].Accomplishments = NonBlank(experience[i].Accomplishments)
         /\ last.outcomes.resume = "ok" =>
              /\ Len(last.rendered) = Len(experience)
              /\ \A i \in DOMAIN experience :
                   /\ last.rendered[i].title_company = experience[i].key
                   /\ last.rendered[i].acc_bullets = NonBlank(experience[i].Accomplishments)

\* the two jobs of Profile1, left as generated, were assembled and rendered
C16_Witness ==
  /\ Finalized
  /\ LeftAsGenerated
  /\ session.generated_profile = Profile1
  /\ Len(last.rendered) = 2
  /\ Len(last.rendered[1].acc_bullets) = 2

----------------------------------------------------------------------------
(* C17 *)

\* C17: a successful generation stores the new profile as the generated
\* profile of the session and sets the cover letter PDF and the resume PDF to
\* None; in every reachable state a PDF offered for download was rendered
\* from the profile now loaded (the one of the current profile_version),
\* never from an earlier one.
C17_PdfsOfLoadedProfile ==
  /\ GeneratedDraft =>
       /\ session.generated_profile = last.ret
       /\ PdfOutputs = {PdfNone}
  /\ \A pdf \in PdfOutputs : Offered(pdf) => pdf.version = session.profile_version

\* a second profile was generated after PDFs of the first had been rendered,
\* and PDFs of the second are offered
C17_Witness ==
  /\ session.profile_version = 2
  /\ Offered(session.generated_pdf_cl)
  /\ Offered(session.generated_pdf_resume)

----------------------------------------------------------------------------
(* C18 *)

\* C18: when rendering fails the output is None and the Generate view tells
\* the user of the failure; it never reports that the PDFs were generated
\* when an output is None.
C18_RenderFailureReported ==
  \A output \in {"cl", "resume"} :
     RenderFailed(output) =>
        /\ (IF output = "cl" THEN session.generated_pdf_cl
                             ELSE session.generated_pdf_resume) = PdfNone
        /\ "render_failed" \in last.msgs
        /\ "pdfs_generated" \notin last.msgs

----------------------------------------------------------------------------
(* C19 *)

----------------------------------------------------------------------------
(* C20 *)

\* C20: when an operation on the table store, the completion backend or the
\* renderer fails, the view shows an inline error, reports no success, and
\* leaves the table and the session state as they were.
C20_FailureIsAnErrorAndNoChange ==
  [][Failed(last', conn') =>
       /\ last'.msgs \cap ErrorMsgs # {}
       /\ last'.msgs \cap SuccessMsgs = {}
       /\ sheet' = sheet
       /\ session' = session
    ]_vars

----------------------------------------------------------------------------
(* C24 *)

\* the operation just done called get_gsheet_connection
StoreOperation(call) ==
  call.op \in {"init", "add", "list", "delete", "update"} /\ ~RejectedLogSubmit(call)

\* C24: once the connection handle has been obtained every later store
\* operation reuses it without connecting again, and after a connection
\* attempt has failed the next store operation attempts the connection
\* again: it gets the handle or shows the connection error anew.
C24_ConnectionReusedOrRetried ==
  [][StoreOperation(last') =>
       /\ conn = "sheet" => (conn' = "sheet" /\ "connect_error" \notin last'.msgs)
       /\ conn = "none"  => (conn' = "sheet" \/ "connect_error" \in last'.msgs)
    ]_vars

----------------------------------------------------------------------------
(* C22 *)

\* C22: on Save, update_accomplishment is called exactly once, with the id
\* of the row, for each row of the edited table that differs in at least one
\* field from the same row of the snapshot, in the order of the table, and
\* for no other row; when no row differs no call is made and the view
\* reports that no changes were detected.
C22_UpdatesExactlyTheChangedRows ==
  Saved =>
    LET changed == DifferingRows(last)
    IN  /\ Len(last.calls) = Len(changed)
        /\ \A i \in 1..Len(changed) : last.calls[i].id_val = changed[i].rec["id"]
        /\ changed = <<>> => "no_changes" \in last.msgs

----------------------------------------------------------------------------
(* C23 *)

\* C23: a Save after rows were removed from or added to the editor neither
\* deletes nor appends a row of the table and leaves column A as it is; the
\* ids of the table change only in a step of the delete action or of add.
C23_SaveKeepsTheRows ==
  [][/\ last'.op = "save" => (Len(sheet') = Len(sheet) /\ ColumnA(sheet') = ColumnA(sheet))
     /\ RowIds(sheet') # RowIds(sheet) => last'.op \in {"add", "delete"}
    ]_vars

\* a Save that made an update call after one row was removed from the
\* editor and one row was added to it
C23_Witness ==
  /\ Saved
  /\ RowRemoved(last)
  /\ RowAdded(last)
  /\ last.calls # <<>>
  /\ sheet # prev

----------------------------------------------------------------------------
(* C29 *)

\* C29: profile_version goes up by exactly one in every successful
\* generation and changes in no other step (not in a failed generation, an
\* edit or a finalize); the review widgets of the new profile take nothing
\* from the flags and texts of the earlier one: every job and accomplishment
\* of the new profile starts included, with the generated text.
C29_VersionedWidgetsStartFresh ==
  [][/\ session'.profile_version # session.profile_version =>
          (last'.op = "generate" /\ "draft_generated" \in last'.msgs)
     /\ (last'.op = "generate" /\ "draft_generated" \in last'.msgs) =>
          /\ session'.profile_version = session.profile_version + 1
          /\ session'.job_include = ReviewWidgets(session'.generated_profile).job_include
          /\ session'.acc_include = ReviewWidgets(session'.generated_profile).acc_include
          /\ session'.acc_text = ReviewWidgets(session'.generated_profile).acc_text
     /\ (last'.op \in {"generate", "review", "finalize"} /\ "draft_generated" \notin last'.msgs) =>
          session'.profile_version = session.profile_version
    ]_vars

\* a second profile with two jobs has been generated and is shown with every
\* job and accomplishment included
C29_Witness ==
  /\ GeneratedDraft
  /\ session.profile_version = 2
  /\ session.generated_profile = Profile1
  /\ session.job_include = <<TRUE, TRUE>>

----------------------------------------------------------------------------
(* C28 *)

\* C28: a finalize leaves the generated profile of the session, its version
\* and the review widgets as they are, and the stored profile changes only
\* in a successful generation; so every job whose checkbox is ticked at a
\* finalize is in the assembled data, also when an earlier finalize had left
\* it out.
C28_FinalizeKeepsTheProfile ==
  [][/\ last'.op = "finalize" =>
          /\ session'.generated_profile = session.generated_profile
          /\ session'.profile_version = session.profile_version
          /\ session'.job_include = session.job_include
          /\ session'.acc_include = session.acc_include
          /\ session'.acc_text = session.acc_text
          /\ \A i \in DOMAIN session.job_include :
               session.job_include[i] =>
                 \E k \in DOMAIN last'.final_data.Experience :
                    /\ last'.final_data.Experience[k].key =
                          Experience(session.generated_profile)[i].key
                    /\ DrawnFromIncluded(last'.final_data.Experience[k].Accomplishments, i)
     /\ session'.generated_profile # session.generated_profile =>
          (last'.op = "generate" /\ "draft_generated" \in last'.msgs)
    ]_vars

\* both jobs of Profile1 are assembled by a finalize with everything
\* included, after an earlier finalize of the same profile had left
\* something out
C28_Witness ==
  /\ Finalized
  /\ hist.left_out
  /\ LeftAsGenerated
  /\ session.generated_profile = Profile1
  /\ Len(last.final_data.Experience) = 2
  /\ Len(last.final_data.Experience[1].Accomplishments) = 2

----------------------------------------------------------------------------
(* C21 *)

\* the last operation was a recording that parsed
VoiceParsed == last.op = "voice" /\ "parsed_toast" \in last.msgs

\* the last operation was a Log submit that reported the entry saved
SubmitSaved == last.op = "add" /\ "saved" \in last.msgs

\* C21: a voice capture that parses fills the six form fields from the
\* parsed entry, and a submit that saves appends one row and leaves every
\* form field of the session idle
C21_VoiceFillsAndSubmitClears ==
  /\ VoiceParsed => session.acc = FormFields(last.ret)
  /\ SubmitSaved => /\ Len(sheet) = Len(prev) + 1
                    /\ session.acc = IdleForm

----------------------------------------------------------------------------
(* C27 *)

\* the session shows something made for a user other than the one logged in
ShownProfile == session.authentication_status /\ IsDict(session.generated_profile)
ShownPdf == session.authentication_status /\ \E pdf \in PdfOutputs : Offered(pdf)
ShownForm == session.authentication_status /\ session.acc # IdleForm

\* C27: what a logged-in user is shown was made in their own login: the
\* generated profile and the PDFs offered come from a generation of this
\* user, and a pre-filled Log form from a recording of this user
C27_NothingOfThePreviousUser ==
  /\ ShownProfile \/ ShownPdf => hist.profile_user = session.username
  /\ ShownForm => hist.form_user = session.username

----------------------------------------------------------------------------
(* C26 *)

\* the id in column A of row r of the grid, "" for a blank row
IdAt(s, r) == IF r <= Len(s) /\ s[r] # <<>> THEN s[r][1] ELSE ""

\* the last step was the request of an update or of a delete that went through
Wrote(op) == last.op = op /\ last.msgs = {}

\* C26: whatever the other session does between the find and the write of a
\* store call, update_accomplishment(id, ...) writes to a row whose id is id
\* and delete_accomplishment(id) removes a row whose id is id
C26_WritesOnlyItsRow ==
  /\ Wrote("update_write") => IdAt(prev, last.row) = last.id
  /\ Wrote("delete_write") /\ sheet # prev => IdAt(prev, last.row) = last.id

----------------------------------------------------------------------------
(* C25 *)

\* the rows of the sheet whose id is id_val
RowsOf(s, id_val) == {r \in 1..Len(s) : IdAt(s, r) = id_val}

\* the six content fields as update_accomplishment writes them
Content(e) ==
  <<e.date, e.category, e.description,
    IF e.impact_metric \in {PyNone, ""} THEN "" ELSE e.impact_metric, e.company, e.title>>

\* the write just done was the later one of two overlapping updates of its id
LastOfTwo ==
  /\ Wrote("update_write")
  /\ last.overlapped
  /\ \A q \in Sessions : ~(procs[q].pc = "update" /\ procs[q].id = last.id)

\* C25: when the updates of two sessions to one id overlap, the row of that
\* id holds, after the later of the two range writes, the six fields of
\* that write, its id and its user as before: the last write wins whole
C25_LastWriteWins ==
  LastOfTwo =>
    \A r \in RowsOf(prev, last.id) :
      /\ IdAt(sheet, r) = last.id
      /\ SubSeq(PadRow(sheet[r], 8), 2, 7) = Content(last.entry)
      /\ PadRow(sheet[r], 8)[8] = PadRow(prev[r], 8)[8]

====
